---------------------------- MODULE Spec2Model ----------------------------
(***************************************************************************)
(* A model of the saucedemo page-object suite: the helper logic of the     *)
(* page objects (sort-order assertion, cart quantity sum, total check,     *)
(* form fills, menu synchronisation, page-load waits) and the session file *)
(* handed from global setup to the test workers.                           *)
(*                                                                         *)
(* Text is a sequence of one-character strings, so that the conversions    *)
(* the code performs (replace, parseFloat, parseInt, string comparison)    *)
(* are computed character by character.  A JavaScript number is a record   *)
(* [nan, val] whose val counts thousandths.                                *)
(***************************************************************************)
EXTENDS Integers, Sequences, FiniteSets, TLC

VARIABLES
    \* ---- inventory page: the rendered list and one assertProductsSorted call
    inventoryItems,   \* products in displayed order (the DOM the getters read)
    sortType,         \* argument sortType of the running call
    sortOrder,        \* argument order of the running call
    sortItems,        \* local `items`
    sortI,            \* local `i`
    sortPc,           \* "idle" | "loop" | "passed" | "raised"
    sortError,        \* <<current, next>> named by the raised error, else <<>>
    \* ---- cart page: the rendered line items and one getTotalCartItemCount call
    cartLines,        \* per .cart_item, which quantity text its .cart_quantity holds
    countItems,       \* local `items`
    countIdx,         \* position of the for-of loop in items
    totalCount,       \* local `totalCount`, a JavaScript number
    countPc,          \* "idle" | "loop" | "returned"
    \* ---- checkout overview: the rendered price labels and one total assertion
    summarySubtotal,  \* amount shown by .summary_subtotal_label
    summaryTax,       \* amount shown by .summary_tax_label
    summaryTotal,     \* amount shown by .summary_total_label
    totalCheckPc,     \* "idle" | "passed" | "raised"
    \* ---- the browser page of a shopping test, as the target application shows it
    pageUrl,          \* which page the browser is on
    cartContents,     \* products the application holds in the cart
    detailsProduct,   \* product the product details page shows
    expectedCart,     \* products added and not removed since through the page objects
    lastShopOp,       \* the page-object method that returned last
    \* ---- forms
    checkoutForm,     \* values of the three inputs of checkout step one
    checkoutError,    \* text of [data-test="error"] on checkout step one, or "none"
    loginForm,        \* values of the two inputs of the login page
    \* ---- header menu of the target application and one openMenu/closeMenu call
    menuState,        \* "closed" | "opening" | "open" | "closing"
    animationMs,      \* how long the application's menu animation takes
    animLeft,         \* milliseconds until the running animation ends
    menuPc,           \* "ready" | "openMenu:waitFor" | "openMenu:delay" | "closeMenu:delay"
    delayLeft,        \* milliseconds until the running waitForTimeout ends
    lastMenuCall,     \* "none" | "openMenu" | "closeMenu": the call made last
    justReturned,     \* TRUE in the state a call returns in
    menuCalls,        \* calls made so far
    \* ---- one page-load wait of a page object
    waitMethod,       \* the method running, or "none"
    waitUrl,          \* page.url() of the browser page
    waitPc,           \* "idle" | "waiting" | "caught" | "shot" | "logged" | "returned" | "raised"
    screenshots,      \* names of the screenshots taken by the call
    consoleLog,       \* lines written by console.log in the call
    waitError,        \* message of the error that reached the caller, or <<>>
    \* ---- the session file auth-standard.json and the processes of a test run
    setupPc,          \* position of globalSetup
    authWrites,       \* writes of the file begun so far
    fileWriters,      \* processes writing the file now
    fileReaders,      \* processes reading the file now
    workerPc,         \* per worker: "unborn" | "idle" | "reading" | "testing"
    workerProject,    \* per worker: the project of the test it runs, or "none"
    loginAttempts,    \* clicks of the login button by globalSetup
    setupOnInventory, \* TRUE once globalSetup's page has reached the inventory page
    authFileCart,     \* cart contents held by the state saved in the file
    workerCart,       \* per worker: cart contents in the browser context of its test
    \* ---- one POManager
    managerPage,      \* the page handle given to the constructor, or "none"
    poConstructed,    \* fields of the manager that hold a constructed page object
    poBoundPage,      \* per field: the page handle its page object was given
    poAccessed,       \* getters accessed so far
    \* ---- one page-object method call and the driver operations it issues
    drvMethod,        \* the method running, or "none"
    drvElements,      \* elements the page shows for the method's list locator
    drvBatch,         \* how many batches of the method's script were issued
    drvOutstanding,   \* operations issued and not yet settled
    drvLog,           \* operations in the order they were issued
    drvFailed,        \* operations that rejected
    drvOutcome,       \* "idle" | "running" | "handling" | "returned" | "raised"
    \* ---- process environment, fixtures and what is derived from them
    processEnv,       \* process.env: per variable name its value, or Undefined
    credPc,           \* "idle" | "returned" | "raised": the last getUserCredentials call
    credResult,       \* the object that call returned
    pageBaseURL,      \* baseURL of the BasePage constructed, or "none"
    setupGotoUrl,     \* the URL globalSetup navigated to, or "none"
    \* ---- assertions of the page objects on what the page shows
    chkLoginError,    \* the login page shows its error message
    chkCall,          \* the last assertion called: its method and its argument
    chkVerdict,       \* "none" | "passed" | "failed": how that call ended
    chkReadAbsent,    \* a call read the text of the cart badge while it was absent
    \* ---- one goto call of a page object
    navMethod,        \* the goto running: "BasePage.goto", "InventoryPage.goto" or "none"
    navBase,          \* this.baseURL of the page object
    navPath,          \* the path argument
    navTarget,        \* the URL handed to page.goto
    navUrl,           \* page.url()
    navPc,            \* where the call stands
    navLog,           \* driver operations and their returns, in order
    navError,         \* the error the call raised, or "none"
    \* ---- one CartPage.removeAllProducts call
    rmLines,          \* the cart page's line items, in document order
    rmInitial,        \* the line items when removeAllProducts was called
    rmButtonCount,    \* local `buttonCount`
    rmPc,             \* where the call stands
    rmClicked,        \* the line items whose remove button was clicked, in order
    rmLog,            \* driver operations of the call, in order
    \* ---- HeaderComponents: menu calls and what they click
    hdrMenu,          \* the application's menu: "closed" | "opening" | "open" | "closing"
    hdrCur,           \* the call running or last returned: its method and the menu when it was called
    hdrPrev,          \* the call before it
    hdrPc,            \* where the call stands
    hdrLog,           \* what the call observed and clicked, in order
    hdrCalls,         \* calls made so far
    \* ---- one LoginPage.login call
    lgnUsername,      \* the username argument
    lgnPassword,      \* the password argument
    lgnWaitForRedirect,\* the waitForRedirect argument
    lgnPc,            \* the step login is at, or how it ended
    lgnLog,           \* driver operations login has issued, in order
    lgnCaught,        \* the error the catch block received, or NoError
    lgnScreenshots,   \* screenshots captured during the call
    lgnRaised         \* the error that reached the caller, or NoError

countVars == <<cartLines, countItems, countIdx, totalCount, countPc>>
summaryVars == <<summarySubtotal, summaryTax, summaryTotal, totalCheckPc>>
sortVars == <<inventoryItems, sortType, sortOrder, sortItems, sortI, sortPc, sortError>>

shopVars == <<pageUrl, cartContents, detailsProduct, expectedCart, lastShopOp>>
formVars == <<checkoutForm, checkoutError, loginForm>>

menuVars == <<menuState, animationMs, animLeft, menuPc, delayLeft, lastMenuCall,
              justReturned, menuCalls>>
waitVars == <<waitMethod, waitUrl, waitPc, screenshots, consoleLog, waitError>>
authVars == <<setupPc, authWrites, fileWriters, fileReaders, workerPc, workerProject,
              loginAttempts, setupOnInventory, authFileCart, workerCart>>

poVars == <<managerPage, poConstructed, poBoundPage, poAccessed>>

drvVars == <<drvMethod, drvElements, drvBatch, drvOutstanding, drvLog, drvFailed,
             drvOutcome>>

cfgVars == <<processEnv, credPc, credResult, pageBaseURL, setupGotoUrl>>

chkVars == <<chkLoginError, chkCall, chkVerdict, chkReadAbsent>>

navVars == <<navMethod, navBase, navPath, navTarget, navUrl, navPc, navLog, navError>>

rmVars == <<rmLines, rmInitial, rmButtonCount, rmPc, rmClicked, rmLog>>

hdrVars == <<hdrMenu, hdrCur, hdrPrev, hdrPc, hdrLog, hdrCalls>>

lgnVars == <<lgnUsername, lgnPassword, lgnWaitForRedirect, lgnPc, lgnLog, lgnCaught, lgnScreenshots, lgnRaised>>

kitVars == <<poVars, drvVars, cfgVars, chkVars, navVars, rmVars, hdrVars, lgnVars>>
vars == <<sortVars, countVars, summaryVars, shopVars, formVars, menuVars, waitVars,
          authVars, kitVars>>

\* What an action of one page object leaves alone: the other page objects.
sortFrame == <<countVars, summaryVars, shopVars, formVars, menuVars, waitVars, authVars, kitVars>>
countFrame == <<sortVars, summaryVars, shopVars, formVars, menuVars, waitVars, authVars, kitVars>>
summaryFrame == <<sortVars, countVars, shopVars, formVars, menuVars, waitVars, authVars, kitVars>>
shopFrame == <<sortVars, countVars, summaryVars, menuVars, waitVars, authVars, kitVars>>
pagesVars == <<sortVars, countVars, summaryVars, shopVars, formVars>>
menuFrame == <<pagesVars, waitVars, authVars, kitVars>>
waitFrame == <<pagesVars, menuVars, authVars, kitVars>>
authFrame == <<pagesVars, menuVars, waitVars, kitVars>>
lgnFrame == <<pagesVars, menuVars, waitVars, authVars, poVars, drvVars, cfgVars, chkVars, navVars, rmVars, hdrVars>>
hdrFrame == <<pagesVars, menuVars, waitVars, authVars, poVars, drvVars, cfgVars, chkVars, navVars, rmVars, lgnVars>>
rmFrame == <<pagesVars, menuVars, waitVars, authVars, poVars, drvVars, cfgVars, chkVars, navVars, hdrVars, lgnVars>>
navFrame == <<pagesVars, menuVars, waitVars, authVars, poVars, drvVars, cfgVars, chkVars, rmVars, hdrVars, lgnVars>>
loginFrame == <<sortVars, countVars, summaryVars, menuVars, waitVars, authVars, poVars, drvVars, cfgVars, navVars, rmVars, hdrVars, lgnVars>>
chkFrame == <<pagesVars, menuVars, waitVars, authVars, poVars, drvVars, cfgVars, navVars, rmVars, hdrVars, lgnVars>>
cfgFrame == <<pagesVars, menuVars, waitVars, authVars, poVars, drvVars, chkVars, navVars, rmVars, hdrVars, lgnVars>>
drvFrame == <<pagesVars, menuVars, waitVars, authVars, poVars, cfgVars, chkVars, navVars, rmVars, hdrVars, lgnVars>>
poFrame == <<pagesVars, menuVars, waitVars, authVars, drvVars, cfgVars, chkVars, navVars, rmVars, hdrVars, lgnVars>>

----------------------------------------------------------------------------
(* Bounds *)

MaxItems == 3       \* longest rendered product list
MaxProducts == 3    \* products the shop offers

----------------------------------------------------------------------------
(* Text and numbers *)

Digits == {"0", "1", "2", "3", "4", "5", "6", "7", "8", "9"}

DigitVal(c) ==
    CASE c = "0" -> 0 [] c = "1" -> 1 [] c = "2" -> 2 [] c = "3" -> 3
      [] c = "4" -> 4 [] c = "5" -> 5 [] c = "6" -> 6 [] c = "7" -> 7
      [] c = "8" -> 8 [] c = "9" -> 9

\* UTF-16 code unit of the characters the model's texts use.
CodeUnit(c) ==
    CASE c = " " -> 32 [] c = "$" -> 36 [] c = "+" -> 43 [] c = "-" -> 45
      [] c = "." -> 46 [] c = ":" -> 58
      [] c \in Digits -> 48 + DigitVal(c)
      [] c = "A" -> 65 [] c = "B" -> 66 [] c = "I" -> 73 [] c = "T" -> 84
      [] c = "a" -> 97 [] c = "b" -> 98 [] c = "c" -> 99 [] c = "l" -> 108
      [] c = "m" -> 109 [] c = "o" -> 111 [] c = "t" -> 116 [] c = "x" -> 120

NaN == [nan |-> TRUE, val |-> 0]
Num(v) == [nan |-> FALSE, val |-> v]

\* x <= y and x >= y on numbers: false as soon as one side is NaN.
NumLeq(x, y) == ~x.nan /\ ~y.nan /\ x.val <= y.val
NumGeq(x, y) == ~x.nan /\ ~y.nan /\ x.val >= y.val

\* a < b on strings: the first differing code unit decides, a proper prefix is smaller.
RECURSIVE StrLess(_, _)
StrLess(a, b) ==
    IF b = <<>> THEN FALSE
    ELSE IF a = <<>> THEN TRUE
    ELSE IF Head(a) # Head(b) THEN CodeUnit(Head(a)) < CodeUnit(Head(b))
    ELSE StrLess(Tail(a), Tail(b))

StrLeq(a, b) == a = b \/ StrLess(a, b)
StrGeq(a, b) == a = b \/ StrLess(b, a)

\* String.prototype.replace with a string pattern: the first occurrence only.
RECURSIVE ReplaceFirst(_, _)
ReplaceFirst(s, c) ==
    IF s = <<>> THEN <<>>
    ELSE IF Head(s) = c THEN Tail(s)
    ELSE <<Head(s)>> \o ReplaceFirst(Tail(s), c)

RECURSIVE TrimLeft(_)
TrimLeft(s) == IF s # <<>> /\ Head(s) = " " THEN TrimLeft(Tail(s)) ELSE s

\* Length of the run of digits s starts with.
RECURSIVE DigitRun(_)
DigitRun(s) == IF s # <<>> /\ Head(s) \in Digits THEN 1 + DigitRun(Tail(s)) ELSE 0

RECURSIVE DigitsToInt(_)
DigitsToInt(s) ==
    IF s = <<>> THEN 0
    ELSE 10 * DigitsToInt(SubSeq(s, 1, Len(s) - 1)) + DigitVal(s[Len(s)])

RECURSIVE Pow10(_)
Pow10(n) == IF n = 0 THEN 1 ELSE 10 * Pow10(n - 1)

\* Thousandths denoted by the fraction digits f (digits past the third are dropped).
FracThousandths(f) ==
    IF Len(f) <= 3 THEN DigitsToInt(f) * Pow10(3 - Len(f))
    ELSE DigitsToInt(SubSeq(f, 1, 3))

\* parseFloat: leading blanks, an optional sign, then the longest decimal
\* literal (digits, optionally a point and digits); NaN when there is none.
\* (No text of the model holds an exponent part or "Infinity".)
ParseFloat(s) ==
    LET t == TrimLeft(s)
        signed == t # <<>> /\ Head(t) \in {"+", "-"}
        neg == t # <<>> /\ Head(t) = "-"
        u == IF signed THEN Tail(t) ELSE t
        ni == DigitRun(u)
        rest == SubSeq(u, ni + 1, Len(u))
        hasDot == rest # <<>> /\ Head(rest) = "."
        nf == IF hasDot THEN DigitRun(Tail(rest)) ELSE 0
        mag == 1000 * DigitsToInt(SubSeq(u, 1, ni))
                 + FracThousandths(SubSeq(rest, 2, nf + 1))
    IN  IF ni + nf = 0 THEN NaN ELSE Num(IF neg THEN 0 - mag ELSE mag)

----------------------------------------------------------------------------
(* The inventory list the target application renders *)

\* name: .inventory_item_name text; price: .inventory_item_price text;
\* thousandths: the amount the price text denotes.
Catalog ==
    << [name |-> <<"A">>,      price |-> <<"$", "9", ".", "9", "9">>,      thousandths |-> 9990],
       [name |-> <<"A", "b">>, price |-> <<"$", "1", "0", ".", "0", "0">>, thousandths |-> 10000],
       [name |-> <<"a">>,      price |-> <<"$", "7", ".", "5">>,           thousandths |-> 7500],
       [name |-> <<"B">>,      price |-> <<"$", "9", ".", "9", "9">>,      thousandths |-> 9990] >>

ProductIds == 1..Len(Catalog)

RECURSIVE SeqsUpTo(_, _)
SeqsUpTo(S, n) ==
    IF n = 0 THEN {<<>>}
    ELSE LET shorter == SeqsUpTo(S, n - 1)
         IN  shorter \cup {Append(q, x) : q \in {r \in shorter : Len(r) = n - 1}, x \in S}

\* allTextContents() of the name and of the price locator, in document order.
getAllProductNames == [k \in 1..Len(inventoryItems) |-> Catalog[inventoryItems[k]].name]
getAllProductPrices == [k \in 1..Len(inventoryItems) |-> Catalog[inventoryItems[k]].price]

----------------------------------------------------------------------------
(* InventoryPage.assertProductsSorted *)

SortTypes == {"name", "price", "rating"}
SortOrders == {"asc", "desc", "up"}

SortInit ==
    /\ inventoryItems \in SeqsUpTo(ProductIds, MaxItems)
    /\ sortType = "name"
    /\ sortOrder = "asc"
    /\ sortItems = <<>>
    /\ sortI = 0
    /\ sortPc = "idle"
    /\ sortError = <<>>

SortIdle ==
    /\ inventoryItems = <<>>
    /\ sortType = "name"
    /\ sortOrder = "asc"
    /\ sortItems = <<>>
    /\ sortI = 0
    /\ sortPc = "idle"
    /\ sortError = <<>>

\* Mutant: strict comparison, so that two equal adjacent names raise.
NameComparison_Strict(order, current, next) ==
    IF order = "asc" THEN StrLess(current, next) ELSE StrLess(next, current)

\* The name branch's `comparison`.
NameComparison(order, current, next) ==
    IF order = "asc" THEN StrLeq(current, next) ELSE StrGeq(current, next)

\* Mutant: the price texts compared as strings, without parseFloat.
PriceComparison_AsText(order, current, next) ==
    IF order = "asc" THEN StrLeq(current, next) ELSE StrGeq(current, next)

\* The price branch's `comparison`.
PriceComparison(order, current, next) ==
    LET currentPrice == ParseFloat(ReplaceFirst(current, "$"))
        nextPrice == ParseFloat(ReplaceFirst(next, "$"))
    IN  IF order = "asc" THEN NumLeq(currentPrice, nextPrice)
        ELSE NumGeq(currentPrice, nextPrice)

\* Mutant: every sort type other than 'name' is checked as a price.
PairRaises_PriceByDefault(type, order, current, next) ==
    IF type = "name" THEN ~NameComparison(order, current, next)
    ELSE ~PriceComparison(order, current, next)

\* Does the loop body throw for the pair (current, next)?
PairRaises(type, order, current, next) ==
    IF type = "name" THEN ~NameComparison(order, current, next)
    ELSE IF type = "price" THEN ~PriceComparison(order, current, next)
    ELSE FALSE

\* Mutant: the loop leaves the last pair out.
SortLoopContinues_OnePairShort(i, items) == i < Len(items) - 2

\* The loop condition i < items.length - 1.
SortLoopContinues(i, items) == i < Len(items) - 1

\* The call: read the items the sort type selects, enter the loop.
AssertProductsSortedCall(type, order) ==
    /\ sortPc \in {"idle", "passed", "raised"}
    /\ sortType' = type
    /\ sortOrder' = order
    /\ sortItems' = IF type = "name" THEN getAllProductNames ELSE getAllProductPrices
    /\ sortI' = 0
    /\ sortPc' = "loop"
    /\ sortError' = <<>>
    /\ UNCHANGED <<inventoryItems, sortFrame>>

\* One turn of the loop: leave it, throw on an inversion, or step on.
AssertProductsSortedStep ==
    /\ sortPc = "loop"
    /\ IF ~SortLoopContinues(sortI, sortItems)
         THEN /\ sortPc' = "passed"
              /\ UNCHANGED <<sortI, sortError>>
         ELSE LET current == sortItems[sortI + 1]
                  next == sortItems[sortI + 2]
              IN  IF PairRaises(sortType, sortOrder, current, next)
                    THEN /\ sortPc' = "raised"
                         /\ sortError' = <<current, next>>
                         /\ UNCHANGED sortI
                    ELSE /\ sortI' = sortI + 1
                         /\ UNCHANGED <<sortPc, sortError>>
    /\ UNCHANGED <<inventoryItems, sortType, sortOrder, sortItems, sortFrame>>

SortNext ==
    \/ \E type \in SortTypes, order \in SortOrders : AssertProductsSortedCall(type, order)
    \/ AssertProductsSortedStep

----------------------------------------------------------------------------
(* CartPage.getTotalCartItemCount *)

\* What locator.textContent() resolves to: null, or a text.
NullText == [null |-> TRUE, text |-> <<>>]
Text(t) == [null |-> FALSE, text |-> t]

\* The quantity texts a line item may show; units: the integer the text
\* denotes, 0 when it denotes none.
QuantityCatalog ==
    << [content |-> Text(<<"1">>), units |-> 1],
       [content |-> Text(<<"2">>), units |-> 2],
       [content |-> Text(<<"1", "0">>), units |-> 10],
       [content |-> Text(<<" ", "3">>), units |-> 3],
       [content |-> Text(<<>>), units |-> 0],
       [content |-> NullText, units |-> 0],
       [content |-> Text(<<"x">>), units |-> 0] >>

QuantityIds == 1..Len(QuantityCatalog)

\* parseInt with the default radix: leading blanks, an optional sign, then
\* the longest run of digits; NaN when there is none.
ParseInt(s) ==
    LET t == TrimLeft(s)
        signed == t # <<>> /\ Head(t) \in {"+", "-"}
        neg == t # <<>> /\ Head(t) = "-"
        u == IF signed THEN Tail(t) ELSE t
        ni == DigitRun(u)
        mag == DigitsToInt(SubSeq(u, 1, ni))
    IN  IF ni = 0 THEN NaN ELSE Num(IF neg THEN 0 - mag ELSE mag)

\* x + y on numbers: NaN as soon as one side is NaN.
NumAdd(x, y) == IF x.nan \/ y.nan THEN NaN ELSE Num(x.val + y.val)

\* A value in a condition: null and the empty string are falsy.
Truthy(q) == ~q.null /\ q.text # <<>>

\* quantity ? parseInt(quantity) : 0
QuantityContribution(quantity) ==
    IF Truthy(quantity) THEN ParseInt(quantity.text) ELSE Num(0)

CountInit ==
    /\ cartLines \in SeqsUpTo(QuantityIds, MaxItems)
    /\ countItems = <<>>
    /\ countIdx = 0
    /\ totalCount = Num(0)
    /\ countPc = "idle"

CountIdle ==
    /\ cartLines = <<>>
    /\ countItems = <<>>
    /\ countIdx = 0
    /\ totalCount = Num(0)
    /\ countPc = "idle"

\* The call: items = await this.cartItems.all(); totalCount = 0.
GetTotalCartItemCountCall ==
    /\ countPc \in {"idle", "returned"}
    /\ countItems' = cartLines
    /\ countIdx' = 0
    /\ totalCount' = Num(0)
    /\ countPc' = "loop"
    /\ UNCHANGED <<cartLines, countFrame>>

\* One turn of the for-of loop, or the return after the last item.
GetTotalCartItemCountStep ==
    /\ countPc = "loop"
    /\ IF countIdx < Len(countItems)
         THEN LET quantity == QuantityCatalog[countItems[countIdx + 1]].content
              IN  /\ totalCount' = NumAdd(totalCount, QuantityContribution(quantity))
                  /\ countIdx' = countIdx + 1
                  /\ UNCHANGED countPc
         ELSE /\ countPc' = "returned"
              /\ UNCHANGED <<countIdx, totalCount>>
    /\ UNCHANGED <<cartLines, countItems, countFrame>>

CountNext ==
    \/ GetTotalCartItemCountCall
    \/ GetTotalCartItemCountStep

----------------------------------------------------------------------------
(* CheckoutOverviewPage.assertTotalCalculationCorrect *)

\* The amounts a price label may show, and the thousandths each denotes.
AmountCatalog ==
    << [shown |-> <<"1", ".", "0", "0">>, thousandths |-> 1000],
       [shown |-> <<"0", ".", "0", "8">>, thousandths |-> 80],
       [shown |-> <<"1", ".", "0", "8">>, thousandths |-> 1080],
       [shown |-> <<"1", ".", "0", "8", "4">>, thousandths |-> 1084],
       [shown |-> <<"1", ".", "0", "8", "5">>, thousandths |-> 1085],
       [shown |-> <<"1", ".", "0", "9">>, thousandths |-> 1090],
       [shown |-> <<"0", ".", "0", "7", "6">>, thousandths |-> 76] >>

AmountIds == 1..Len(AmountCatalog)

\* getSubtotal(), getTax(), getTotal(): the label texts "Item total: $…",
\* "Tax: $…", "Total: $…".
getSubtotal ==
    <<"I", "t", "e", "m", " ", "t", "o", "t", "a", "l", ":", " ", "$">>
        \o AmountCatalog[summarySubtotal].shown
getTax == <<"T", "a", "x", ":", " ", "$">> \o AmountCatalog[summaryTax].shown
getTotal == <<"T", "o", "t", "a", "l", ":", " ", "$">> \o AmountCatalog[summaryTotal].shown

\* replace(/[^0-9.]/g, ''): every character but digits and points is dropped.
StripNonNumeric(s) == SelectSeq(s, LAMBDA c : c \in Digits \cup {"."})

Abs(n) == IF n < 0 THEN 0 - n ELSE n

\* Mutant: the tolerance of one decimal place.
ToBeCloseTo_OneDecimal(received, expected, precision) ==
    /\ ~received.nan
    /\ ~expected.nan
    /\ 2 * Abs(expected.val - received.val) < Pow10(3 - 1)

\* expect(received).toBeCloseTo(expected, precision):
\* |expected - received| < 10^-precision / 2, on thousandths.
ToBeCloseTo(received, expected, precision) ==
    /\ ~received.nan
    /\ ~expected.nan
    /\ 2 * Abs(expected.val - received.val) < Pow10(3 - precision)

TotalCalculationPasses ==
    LET subtotalValue == ParseFloat(StripNonNumeric(getSubtotal))
        taxValue == ParseFloat(StripNonNumeric(getTax))
        totalValue == ParseFloat(StripNonNumeric(getTotal))
    IN  ToBeCloseTo(totalValue, NumAdd(subtotalValue, taxValue), 2)

SummaryInit ==
    /\ summarySubtotal \in AmountIds
    /\ summaryTax \in AmountIds
    /\ summaryTotal \in AmountIds
    /\ totalCheckPc = "idle"

SummaryIdle ==
    /\ summarySubtotal = 1
    /\ summaryTax = 1
    /\ summaryTotal = 1
    /\ totalCheckPc = "idle"

AssertTotalCalculationCorrect ==
    /\ totalCheckPc = "idle"
    /\ totalCheckPc' = IF TotalCalculationPasses THEN "passed" ELSE "raised"
    /\ UNCHANGED <<summarySubtotal, summaryTax, summaryTotal, summaryFrame>>

SummaryNext == AssertTotalCalculationCorrect

----------------------------------------------------------------------------
(* The shopping pages' state at rest *)

ShopIdle ==
    /\ pageUrl = "inventory"
    /\ cartContents = {}
    /\ detailsProduct = 1
    /\ expectedCart = {}
    /\ lastShopOp = "none"

----------------------------------------------------------------------------
(* CheckoutInfoPage and LoginPage: form fields *)

HundredChars == 100

\* Texts a test fills in: nothing, a plain word, blanks around a special
\* character, and the 100-character text.
FormTexts ==
    { <<>>,
      <<"J", "o">>,
      <<" ", "'", " ">>,
      [k \in 1..HundredChars |-> "A"] }

CheckoutFields == {"firstName", "lastName", "postalCode"}
LoginFields == {"username", "password"}

EmptyCheckoutForm == [f \in CheckoutFields |-> <<>>]
EmptyLoginForm == [f \in LoginFields |-> <<>>]

FormInit ==
    /\ pageUrl = "checkout-step-one"
    /\ cartContents = {1}
    /\ detailsProduct = 1
    /\ expectedCart = {1}
    /\ lastShopOp = "none"
    /\ checkoutForm = EmptyCheckoutForm
    /\ checkoutError = "none"
    /\ loginForm = EmptyLoginForm

FormIdle ==
    /\ checkoutForm = EmptyCheckoutForm
    /\ checkoutError = "none"
    /\ loginForm = EmptyLoginForm

\* locator.fill(text): the input's value becomes text, whatever it held.
LocatorFill(value, text) == text

\* Mutant: the text is typed after what the input holds.
BaseFill_Type(value, text) == value \o text

\* BasePage.fill(locator, text)
BaseFill(value, text) == LocatorFill(value, text)

\* locator.inputValue() of the five inputs.
getFirstNameValue == checkoutForm["firstName"]
getLastNameValue == checkoutForm["lastName"]
getPostalCodeValue == checkoutForm["postalCode"]
getUsernameValue == loginForm["username"]
getPasswordValue == loginForm["password"]

OnCheckoutStepOne == pageUrl = "checkout-step-one"

FillFirstName(firstName) ==
    /\ OnCheckoutStepOne
    /\ checkoutForm' = [checkoutForm EXCEPT
                           !["firstName"] = BaseFill(checkoutForm["firstName"], firstName)]
    /\ UNCHANGED <<shopVars, checkoutError, loginForm, shopFrame>>

FillLastName(lastName) ==
    /\ OnCheckoutStepOne
    /\ checkoutForm' = [checkoutForm EXCEPT
                           !["lastName"] = BaseFill(checkoutForm["lastName"], lastName)]
    /\ UNCHANGED <<shopVars, checkoutError, loginForm, shopFrame>>

FillPostalCode(postalCode) ==
    /\ OnCheckoutStepOne
    /\ checkoutForm' = [checkoutForm EXCEPT
                           !["postalCode"] = BaseFill(checkoutForm["postalCode"], postalCode)]
    /\ UNCHANGED <<shopVars, checkoutError, loginForm, shopFrame>>

\* fillCheckoutForm: the three fills, one after the other.
FillCheckoutForm(firstName, lastName, postalCode) ==
    /\ OnCheckoutStepOne
    /\ checkoutForm' =
          [f \in CheckoutFields |->
              BaseFill(checkoutForm[f],
                       CASE f = "firstName" -> firstName
                         [] f = "lastName" -> lastName
                         [] f = "postalCode" -> postalCode)]
    /\ UNCHANGED <<shopVars, checkoutError, loginForm, shopFrame>>

ClearAllFields ==
    /\ OnCheckoutStepOne
    /\ checkoutForm' = [f \in CheckoutFields |-> LocatorFill(checkoutForm[f], <<>>)]
    /\ UNCHANGED <<shopVars, checkoutError, loginForm, shopFrame>>

FillUsername(username) ==
    /\ loginForm' = [loginForm EXCEPT
                        !["username"] = LocatorFill(loginForm["username"], username)]
    /\ UNCHANGED <<shopVars, checkoutForm, checkoutError, shopFrame>>

FillPassword(password) ==
    /\ loginForm' = [loginForm EXCEPT
                        !["password"] = LocatorFill(loginForm["password"], password)]
    /\ UNCHANGED <<shopVars, checkoutForm, checkoutError, shopFrame>>

\* Mutant: the application validates the postal code before the names.
ValidationError_PostalFirst(form) ==
    IF form["postalCode"] = <<>> THEN "Error: Postal Code is required"
    ELSE IF form["firstName"] = <<>> THEN "Error: First Name is required"
    ELSE IF form["lastName"] = <<>> THEN "Error: Last Name is required"
    ELSE "none"

\* The target application's answer to the continue button, as the
\* validation tests pin it down.
ValidationError(form) ==
    IF form["firstName"] = <<>> THEN "Error: First Name is required"
    ELSE IF form["lastName"] = <<>> THEN "Error: Last Name is required"
    ELSE IF form["postalCode"] = <<>> THEN "Error: Postal Code is required"
    ELSE "none"

\* continueToOverview: click the continue button, wait for the load state.
ContinueToOverview ==
    /\ OnCheckoutStepOne
    /\ checkoutError' = ValidationError(checkoutForm)
    /\ pageUrl' = IF ValidationError(checkoutForm) = "none"
                    THEN "checkout-step-two" ELSE pageUrl
    /\ UNCHANGED <<cartContents, detailsProduct, expectedCart, lastShopOp, checkoutForm, loginForm,
                   shopFrame>>

\* CheckoutInfoPage.cancel: click the cancel button; the application shows the cart.
CheckoutInfoCancel ==
    /\ OnCheckoutStepOne
    /\ pageUrl' = "cart"
    /\ checkoutForm' = EmptyCheckoutForm
    /\ checkoutError' = "none"
    /\ UNCHANGED <<cartContents, detailsProduct, expectedCart, lastShopOp, loginForm, shopFrame>>

\* CartPage.goToCheckout: click the checkout button; step one opens with a fresh form.
GoToCheckout ==
    /\ pageUrl = "cart"
    /\ pageUrl' = "checkout-step-one"
    /\ checkoutForm' = EmptyCheckoutForm
    /\ checkoutError' = "none"
    /\ UNCHANGED <<cartContents, detailsProduct, expectedCart, lastShopOp, loginForm, shopFrame>>

\* CheckoutInfoPage.goto: load /checkout-step-one.html, a fresh form.
CheckoutInfoGoto ==
    /\ pageUrl' = "checkout-step-one"
    /\ checkoutForm' = EmptyCheckoutForm
    /\ checkoutError' = "none"
    /\ UNCHANGED <<cartContents, detailsProduct, expectedCart, lastShopOp, loginForm, shopFrame>>

FormNext ==
    \/ \E t \in FormTexts : FillFirstName(t)
    \/ \E t \in FormTexts : FillLastName(t)
    \/ \E t \in FormTexts : FillPostalCode(t)
    \/ \E t \in FormTexts : FillCheckoutForm(t, t, t)
    \/ ClearAllFields
    \/ \E t \in FormTexts : FillUsername(t)
    \/ \E t \in FormTexts : FillPassword(t)
    \/ ContinueToOverview
    \/ CheckoutInfoCancel
    \/ GoToCheckout
    \/ CheckoutInfoGoto

----------------------------------------------------------------------------
(* Cart operations of InventoryPage, ProductDetailsPage and CartPage *)

\* The shop's products; their names are distinct and none occurs in another
\* product's item text, so a hasText filter on a name selects one item.
ShopProducts == 1..MaxProducts

ShopInit ==
    /\ pageUrl = "inventory"
    /\ cartContents = {}
    /\ detailsProduct = 1
    /\ expectedCart = {}
    /\ lastShopOp = "none"

\* Decimal text of a natural number, as the badge renders the count.
RECURSIVE NatToText(_)
NatToText(n) ==
    LET digit == CHOOSE c \in Digits : DigitVal(c) = n % 10
    IN  IF n < 10 THEN <<digit>> ELSE Append(NatToText(n \div 10), digit)

\* .shopping_cart_badge: rendered only while the cart holds something.
BadgeVisible == cartContents # {}
BadgeText == NatToText(Cardinality(cartContents))

\* InventoryPage.getCartItemCount
InventoryGetCartItemCount ==
    IF BadgeVisible THEN ParseInt(BadgeText) ELSE Num(0)

\* CartPage.getCartItemCount: the .cart_item elements of the page.
CartGetCartItemCount ==
    IF pageUrl = "cart" THEN Cardinality(cartContents) ELSE 0

\* Elements an item-scoped locator resolves to: the add-to-cart button
\* inside the item named p, the remove button inside it.
ItemAddButtons(p) == IF p \in cartContents THEN {} ELSE {p}

\* Mutant: the remove button looked up on the whole page, not inside the item.
ItemRemoveButtons_PageWide(p) == cartContents

ItemRemoveButtons(p) == IF p \in cartContents THEN {p} ELSE {}

\* locator.click() acts when the locator resolves to exactly one element.
Clickable(buttons) == Cardinality(buttons) = 1
TheButton(buttons) == CHOOSE b \in buttons : TRUE

InventoryAddProductToCart(p) ==
    /\ pageUrl = "inventory"
    /\ Clickable(ItemAddButtons(p))
    /\ cartContents' = cartContents \cup {TheButton(ItemAddButtons(p))}
    /\ expectedCart' = expectedCart \cup {p}
    /\ lastShopOp' = "InventoryPage.addProductToCart"
    /\ UNCHANGED <<pageUrl, detailsProduct, formVars, shopFrame>>

InventoryRemoveProductFromCart(p) ==
    /\ pageUrl = "inventory"
    /\ Clickable(ItemRemoveButtons(p))
    /\ cartContents' = cartContents \ {TheButton(ItemRemoveButtons(p))}
    /\ expectedCart' = expectedCart \ {p}
    /\ lastShopOp' = "InventoryPage.removeProductFromCart"
    /\ UNCHANGED <<pageUrl, detailsProduct, formVars, shopFrame>>

\* ProductDetailsPage.gotoByName: click the item's name link.
GotoByName(p) ==
    /\ pageUrl = "inventory"
    /\ pageUrl' = "inventory-item"
    /\ detailsProduct' = p
    /\ lastShopOp' = "ProductDetailsPage.gotoByName"
    /\ UNCHANGED <<cartContents, expectedCart, formVars, shopFrame>>

GoBackToInventory ==
    /\ pageUrl = "inventory-item"
    /\ pageUrl' = "inventory"
    /\ lastShopOp' = "ProductDetailsPage.goBackToInventory"
    /\ UNCHANGED <<cartContents, detailsProduct, expectedCart, formVars, shopFrame>>

\* ProductDetailsPage.addToCart / removeFromCart: the page's one button.
DetailsAddToCart ==
    /\ pageUrl = "inventory-item"
    /\ Clickable(ItemAddButtons(detailsProduct))
    /\ cartContents' = cartContents \cup {TheButton(ItemAddButtons(detailsProduct))}
    /\ expectedCart' = expectedCart \cup {detailsProduct}
    /\ lastShopOp' = "ProductDetailsPage.addToCart"
    /\ UNCHANGED <<pageUrl, detailsProduct, formVars, shopFrame>>

DetailsRemoveFromCart ==
    /\ pageUrl = "inventory-item"
    /\ Clickable(ItemRemoveButtons(detailsProduct))
    /\ cartContents' = cartContents \ {TheButton(ItemRemoveButtons(detailsProduct))}
    /\ expectedCart' = expectedCart \ {detailsProduct}
    /\ lastShopOp' = "ProductDetailsPage.removeFromCart"
    /\ UNCHANGED <<pageUrl, detailsProduct, formVars, shopFrame>>

\* InventoryPage.goToCart, ProductDetailsPage.goToCart: click the cart icon.
GoToCart ==
    /\ pageUrl \in {"inventory", "inventory-item"}
    /\ pageUrl' = "cart"
    /\ lastShopOp' = "goToCart"
    /\ UNCHANGED <<cartContents, detailsProduct, expectedCart, formVars, shopFrame>>

\* CartPage.removeProductFromCart: the remove button inside the line item.
CartRemoveProductFromCart(p) ==
    /\ pageUrl = "cart"
    /\ Clickable(ItemRemoveButtons(p))
    /\ cartContents' = cartContents \ {TheButton(ItemRemoveButtons(p))}
    /\ expectedCart' = expectedCart \ {p}
    /\ lastShopOp' = "CartPage.removeProductFromCart"
    /\ UNCHANGED <<pageUrl, detailsProduct, formVars, shopFrame>>

ContinueShopping ==
    /\ pageUrl = "cart"
    /\ pageUrl' = "inventory"
    /\ lastShopOp' = "CartPage.continueShopping"
    /\ UNCHANGED <<cartContents, detailsProduct, expectedCart, formVars, shopFrame>>

ShopNext ==
    \/ \E p \in ShopProducts : InventoryAddProductToCart(p)
    \/ \E p \in ShopProducts : InventoryRemoveProductFromCart(p)
    \/ \E p \in ShopProducts : GotoByName(p)
    \/ GoBackToInventory
    \/ DetailsAddToCart
    \/ DetailsRemoveFromCart
    \/ GoToCart
    \/ \E p \in ShopProducts : CartRemoveProductFromCart(p)
    \/ ContinueShopping

----------------------------------------------------------------------------
(* HeaderComponents.openMenu / closeMenu against the application's menu *)

MaxMenuCalls == 6        \* openMenu/closeMenu calls of one test
RenderDelayMs == 300     \* waitForTimeout at the end of openMenu
CloseDelayMs == 300      \* waitForTimeout at the end of closeMenu

\* Durations of the application's open/close animation, in milliseconds.
AnimationDurations == {0, 100, 200, 300, 400, 500}

MenuInit ==
    /\ menuState = "closed"
    /\ animationMs \in AnimationDurations
    /\ animLeft = 0
    /\ menuPc = "ready"
    /\ delayLeft = 0
    /\ lastMenuCall = "none"
    /\ justReturned = FALSE
    /\ menuCalls = 0

MenuIdle ==
    /\ menuState = "closed"
    /\ animationMs = 0
    /\ animLeft = 0
    /\ menuPc = "ready"
    /\ delayLeft = 0
    /\ lastMenuCall = "none"
    /\ justReturned = FALSE
    /\ menuCalls = 0

\* #react-burger-cross-btn is shown from the moment the menu starts to open
\* until it has finished closing.
CloseButtonVisible == menuState # "closed"

\* HeaderComponents.isMenuOpen
isMenuOpen == CloseButtonVisible

\* The application's reaction to a click on the burger button and on the
\* close button: the menu starts to animate, or switches at once when the
\* animation takes no time.
MenuAfterOpenClick ==
    IF menuState \in {"open", "opening"} THEN menuState
    ELSE IF animationMs = 0 THEN "open" ELSE "opening"

MenuAfterCloseClick ==
    IF menuState \in {"closed", "closing"} THEN menuState
    ELSE IF animationMs = 0 THEN "closed" ELSE "closing"

AnimLeftAfterClick(after) ==
    IF after = menuState THEN animLeft ELSE animationMs

Settled(state) ==
    CASE state = "opening" -> "open"
      [] state = "closing" -> "closed"
      [] OTHER -> state

\* openMenu up to its first wait: return at once when isMenuOpen(), else
\* click the burger button.
OpenMenuCall ==
    /\ menuPc = "ready"
    /\ lastMenuCall \in {"none", "closeMenu"}
    /\ menuCalls < MaxMenuCalls
    /\ menuCalls' = menuCalls + 1
    /\ lastMenuCall' = "openMenu"
    /\ IF isMenuOpen
         THEN /\ justReturned' = TRUE
              /\ UNCHANGED <<menuState, animLeft, menuPc>>
         ELSE /\ menuState' = MenuAfterOpenClick
              /\ animLeft' = AnimLeftAfterClick(MenuAfterOpenClick)
              /\ menuPc' = "openMenu:waitFor"
              /\ justReturned' = FALSE
    /\ UNCHANGED <<animationMs, delayLeft, menuFrame>>

\* closeButton.waitFor({ state: 'visible' }), then waitForTimeout(300) starts.
OpenMenuWaitFor ==
    /\ menuPc = "openMenu:waitFor"
    /\ CloseButtonVisible
    /\ menuPc' = "openMenu:delay"
    /\ delayLeft' = RenderDelayMs
    /\ UNCHANGED <<menuState, animationMs, animLeft, lastMenuCall, justReturned,
                   menuCalls, menuFrame>>

OpenMenuReturn ==
    /\ menuPc = "openMenu:delay"
    /\ delayLeft = 0
    /\ menuPc' = "ready"
    /\ justReturned' = TRUE
    /\ UNCHANGED <<menuState, animationMs, animLeft, delayLeft, lastMenuCall,
                   menuCalls, menuFrame>>

\* closeMenu up to its delay: the close button is attached, it is clicked
\* through the DOM, waitForTimeout(300) starts.
CloseMenuCall ==
    /\ menuPc = "ready"
    /\ lastMenuCall = "openMenu"
    /\ menuCalls < MaxMenuCalls
    /\ menuCalls' = menuCalls + 1
    /\ lastMenuCall' = "closeMenu"
    /\ menuState' = MenuAfterCloseClick
    /\ animLeft' = AnimLeftAfterClick(MenuAfterCloseClick)
    /\ menuPc' = "closeMenu:delay"
    /\ delayLeft' = CloseDelayMs
    /\ justReturned' = FALSE
    /\ UNCHANGED <<animationMs, menuFrame>>

CloseMenuReturn ==
    /\ menuPc = "closeMenu:delay"
    /\ delayLeft = 0
    /\ menuPc' = "ready"
    /\ justReturned' = TRUE
    /\ UNCHANGED <<menuState, animationMs, animLeft, delayLeft, lastMenuCall,
                   menuCalls, menuFrame>>

\* Time runs on to the next moment something ends: the animation or the delay.
TimePasses ==
    LET pending == {t \in {animLeft, delayLeft} : t > 0}
        d == CHOOSE t \in pending : \A u \in pending : t <= u
    IN  /\ pending # {}
        /\ animLeft' = IF animLeft > 0 THEN animLeft - d ELSE 0
        /\ delayLeft' = IF delayLeft > 0 THEN delayLeft - d ELSE 0
        /\ menuState' = IF animLeft = d THEN Settled(menuState) ELSE menuState
        /\ justReturned' = FALSE
        /\ UNCHANGED <<animationMs, menuPc, lastMenuCall, menuCalls, menuFrame>>

MenuNext ==
    \/ OpenMenuCall
    \/ OpenMenuWaitFor
    \/ OpenMenuReturn
    \/ CloseMenuCall
    \/ CloseMenuReturn
    \/ TimePasses

----------------------------------------------------------------------------
(* Page-load waits of the page objects *)

WaitMethods ==
    {"LoginPage.goto", "LoginPage.waitForPageLoad", "InventoryPage.waitForPageLoad",
     "ProductDetailsPage.waitForPageLoad", "CartPage.waitForPageLoad",
     "CheckoutInfoPage.waitForPageLoad", "CheckoutOverviewPage.waitForPageLoad",
     "CheckoutCompletePage.waitForPageLoad"}

\* What page.url() can be while a wait runs.
WaitUrls ==
    {"about:blank", "https://www.saucedemo.com/",
     "https://www.saucedemo.com/inventory.html"}

\* The methods whose wait sits in a try block.
HasCatchBlock(m) ==
    m \notin {"LoginPage.waitForPageLoad", "ProductDetailsPage.waitForPageLoad"}

\* Name given to takeScreenshot in the catch block of m.
ScreenshotName(m) ==
    CASE m = "LoginPage.goto" -> "login-button-not-visible"
      [] m = "InventoryPage.waitForPageLoad" -> "inventory-container-not-found"
      [] m = "CartPage.waitForPageLoad" -> "cart-container-not-found"
      [] m = "CheckoutInfoPage.waitForPageLoad" -> "checkout-info-not-found"
      [] m = "CheckoutOverviewPage.waitForPageLoad" -> "checkout-overview-not-found"
      [] m = "CheckoutCompletePage.waitForPageLoad" -> "checkout-complete-not-found"

\* Message of the Error thrown by the catch block of m, as its template parts.
DescriptiveMessage(m, url) ==
    CASE m = "LoginPage.goto" ->
            <<"Login button not visible on page. URL: ", url, ", Title: ", "title">>
      [] m = "InventoryPage.waitForPageLoad" ->
            <<"Inventory page not loaded properly. URL: ", url>>
      [] m = "CartPage.waitForPageLoad" ->
            <<"Cart page not loaded properly. URL: ", url>>
      [] m = "CheckoutInfoPage.waitForPageLoad" ->
            <<"Checkout info page not loaded properly. URL: ", url>>
      [] m = "CheckoutOverviewPage.waitForPageLoad" ->
            <<"Checkout overview page not loaded properly. URL: ", url>>
      [] m = "CheckoutCompletePage.waitForPageLoad" ->
            <<"Checkout complete page not loaded properly. URL: ", url>>

\* Message of the error locator.waitFor rejects with after its timeout.
TimeoutMessage == <<"locator.waitFor: Timeout 15000ms exceeded.">>

WaitIdle ==
    /\ waitMethod = "none"
    /\ waitUrl = "about:blank"
    /\ waitPc = "idle"
    /\ screenshots = {}
    /\ consoleLog = <<>>
    /\ waitError = <<>>

WaitInit == WaitIdle

WaitCall(m, url) ==
    /\ waitPc \in {"idle", "returned", "raised"}
    /\ waitMethod' = m
    /\ waitUrl' = url
    /\ waitPc' = "waiting"
    /\ screenshots' = {}
    /\ consoleLog' = <<>>
    /\ waitError' = <<>>
    /\ UNCHANGED waitFrame

\* The expected element became visible within the 15000 ms.
ElementAppears ==
    /\ waitPc = "waiting"
    /\ waitPc' = "returned"
    /\ UNCHANGED <<waitMethod, waitUrl, screenshots, consoleLog, waitError, waitFrame>>

\* It did not: waitFor rejects, into the catch block where there is one.
WaitTimesOut ==
    /\ waitPc = "waiting"
    /\ IF HasCatchBlock(waitMethod)
         THEN waitPc' = "caught" /\ waitError' = waitError
         ELSE waitPc' = "raised" /\ waitError' = TimeoutMessage
    /\ UNCHANGED <<waitMethod, waitUrl, screenshots, consoleLog, waitFrame>>

CatchTakesScreenshot ==
    /\ waitPc = "caught"
    /\ screenshots' = screenshots \cup {ScreenshotName(waitMethod)}
    /\ waitPc' = "shot"
    /\ UNCHANGED <<waitMethod, waitUrl, consoleLog, waitError, waitFrame>>

CatchLogsUrl ==
    /\ waitPc = "shot"
    /\ consoleLog' = Append(consoleLog, <<"Current URL: ", waitUrl>>)
    /\ waitPc' = "logged"
    /\ UNCHANGED <<waitMethod, waitUrl, screenshots, waitError, waitFrame>>

CatchThrows ==
    /\ waitPc = "logged"
    /\ waitError' = DescriptiveMessage(waitMethod, waitUrl)
    /\ waitPc' = "raised"
    /\ UNCHANGED <<waitMethod, waitUrl, screenshots, consoleLog, waitFrame>>

WaitNext ==
    \/ \E m \in WaitMethods, url \in WaitUrls : WaitCall(m, url)
    \/ ElementAppears
    \/ WaitTimesOut
    \/ CatchTakesScreenshot
    \/ CatchLogsUrl
    \/ CatchThrows

----------------------------------------------------------------------------
(* auth-standard.json: global setup, then the workers of the test run *)

MaxWorkers == 3     \* worker processes of the parallel phase
Workers == 1..MaxWorkers

\* The projects of the configuration and whether they name a storageState.
Projects == {"login-tests", "authenticated-tests", "smoke-tests"}
UsesStorageState(project) == project \in {"authenticated-tests", "smoke-tests"}

AuthInit ==
    /\ setupPc = "launch"
    /\ loginAttempts = 0
    /\ setupOnInventory = FALSE
    /\ authWrites = 0
    /\ authFileCart = {}
    /\ workerCart = [w \in Workers |-> {}]
    /\ fileWriters = {}
    /\ fileReaders = {}
    /\ workerPc = [w \in Workers |-> "unborn"]
    /\ workerProject = [w \in Workers |-> "none"]

AuthIdle ==
    /\ setupPc = "done"
    /\ loginAttempts = 1
    /\ setupOnInventory = TRUE
    /\ authWrites = 1
    /\ authFileCart = {}
    /\ workerCart = [w \in Workers |-> {}]
    /\ fileWriters = {}
    /\ fileReaders = {}
    /\ workerPc = [w \in Workers |-> "unborn"]
    /\ workerProject = [w \in Workers |-> "none"]

\* globalSetup: launch, page.goto, fill and click, then waitForURL until the
\* inventory page is reached.
SetupLogsIn ==
    /\ setupPc \in {"launch", "goto", "login", "waitForURL"}
    /\ setupPc' = CASE setupPc = "launch" -> "goto"
                    [] setupPc = "goto" -> "login"
                    [] setupPc = "login" -> "waitForURL"
                    [] setupPc = "waitForURL" -> "loggedIn"
    /\ loginAttempts' = IF setupPc = "login" THEN loginAttempts + 1 ELSE loginAttempts
    /\ setupOnInventory' = (setupPc = "waitForURL" \/ setupOnInventory)
    /\ UNCHANGED <<authWrites, fileWriters, fileReaders, workerPc, workerProject,
                   authFileCart, workerCart, authFrame>>

\* Any awaited step before the save may reject; nothing catches it, so
\* globalSetup rejects and the run ends before a worker exists.
SetupFails ==
    /\ setupPc \in {"launch", "goto", "login", "waitForURL"}
    /\ setupPc' = "failed"
    /\ UNCHANGED <<authWrites, fileWriters, fileReaders, workerPc, workerProject, loginAttempts, setupOnInventory, authFileCart, workerCart, authFrame>>

\* Mutant: waitForURL is not awaited.
ReadyToSave_NoWait == setupPc \in {"waitForURL", "loggedIn"}

ReadyToSave == setupPc = "loggedIn"

\* What the browser context of global setup holds of the cart when it is
\* saved: right after the login, nothing.
SavedCart == {}

\* context.storageState({ path }) starts to write the file.
SetupSavesState ==
    /\ ReadyToSave
    /\ setupPc' = "storageState"
    /\ authWrites' = authWrites + 1
    /\ fileWriters' = fileWriters \cup {"globalSetup"}
    /\ authFileCart' = SavedCart
    /\ UNCHANGED <<fileReaders, workerPc, workerProject, loginAttempts, setupOnInventory,
                   workerCart, authFrame>>

WriteCompletes ==
    /\ "globalSetup" \in fileWriters
    /\ fileWriters' = fileWriters \ {"globalSetup"}
    /\ UNCHANGED <<setupPc, authWrites, fileReaders, workerPc, workerProject, loginAttempts, setupOnInventory, authFileCart, workerCart, authFrame>>

\* Mutant: the storageState call is not awaited.
StorageStateAwaited_Not == FALSE

StorageStateAwaited == TRUE

\* browser.close() and the return of globalSetup.
SetupCloses ==
    /\ setupPc \in {"storageState", "close"}
    /\ setupPc = "storageState" /\ StorageStateAwaited => "globalSetup" \notin fileWriters
    /\ setupPc' = IF setupPc = "storageState" THEN "close" ELSE "done"
    /\ UNCHANGED <<authWrites, fileWriters, fileReaders, workerPc, workerProject, loginAttempts, setupOnInventory, authFileCart, workerCart, authFrame>>

\* The runner starts workers once globalSetup has resolved.
WorkerStarts(w) ==
    /\ setupPc = "done"
    /\ workerPc[w] = "unborn"
    /\ workerPc' = [workerPc EXCEPT ![w] = "idle"]
    /\ UNCHANGED <<setupPc, authWrites, fileWriters, fileReaders, workerProject, loginAttempts, setupOnInventory, authFileCart, workerCart, authFrame>>

\* A worker takes a test: its browser context is created, from the file when
\* the test's project names a storageState.
TestBegins(w, project) ==
    /\ workerPc[w] = "idle"
    /\ workerProject' = [workerProject EXCEPT ![w] = project]
    /\ IF UsesStorageState(project)
         THEN /\ workerPc' = [workerPc EXCEPT ![w] = "reading"]
              /\ fileReaders' = fileReaders \cup {w}
              /\ workerCart' = workerCart
         ELSE /\ workerPc' = [workerPc EXCEPT ![w] = "testing"]
              /\ fileReaders' = fileReaders
              /\ workerCart' = [workerCart EXCEPT ![w] = {}]
    /\ UNCHANGED <<setupPc, authWrites, fileWriters, loginAttempts, setupOnInventory,
                   authFileCart, authFrame>>

\* Mutant: the test's page is opened in the context the worker's previous
\* test left behind.
ContextCart_Reused(w) == workerCart[w]

\* The cart a context made from the file starts with.
ContextCart(w) == authFileCart

ContextCreated(w) ==
    /\ workerPc[w] = "reading"
    /\ workerPc' = [workerPc EXCEPT ![w] = "testing"]
    /\ fileReaders' = fileReaders \ {w}
    /\ workerCart' = [workerCart EXCEPT ![w] = ContextCart(w)]
    /\ UNCHANGED <<setupPc, authWrites, fileWriters, workerProject, loginAttempts,
                   setupOnInventory, authFileCart, authFrame>>

\* Products the tests put into carts.
TestProducts == {1, 2}

\* A test adds a product to the cart or removes it, in its own page.
TestChangesCart(w, p) ==
    /\ workerPc[w] = "testing"
    /\ workerCart' = [workerCart EXCEPT
                         ![w] = IF p \in @ THEN @ \ {p} ELSE @ \cup {p}]
    /\ UNCHANGED <<setupPc, authWrites, fileWriters, fileReaders, workerPc, workerProject,
                   loginAttempts, setupOnInventory, authFileCart, authFrame>>

\* The test body drives page objects; none of them touches the file.
TestEnds(w) ==
    /\ workerPc[w] = "testing"
    /\ workerPc' = [workerPc EXCEPT ![w] = "idle"]
    /\ workerProject' = [workerProject EXCEPT ![w] = "none"]
    /\ UNCHANGED <<setupPc, authWrites, fileWriters, fileReaders, loginAttempts, setupOnInventory, authFileCart, workerCart, authFrame>>

AuthNext ==
    \/ SetupLogsIn
    \/ SetupFails
    \/ SetupSavesState
    \/ WriteCompletes
    \/ SetupCloses
    \/ \E w \in Workers : WorkerStarts(w)
    \/ \E w \in Workers, project \in Projects : TestBegins(w, project)
    \/ \E w \in Workers : ContextCreated(w)
    \/ \E w \in Workers, p \in TestProducts : TestChangesCart(w, p)
    \/ \E w \in Workers : TestEnds(w)

----------------------------------------------------------------------------
(* POManager *)

PageHandles == {"page1", "page2"}

\* The fields the constructor assigns and the getters of the class.
ManagerFields ==
    {"_loginPage", "_inventoryPage", "_productDetailsPage", "_cartPage",
     "_checkoutInfo", "_checkoutOverview", "_checkoutComplete",
     "_headerComponents", "_commonElements", "_basePage"}

ManagerGetters ==
    {"loginPage", "inventoryPage", "productDetailsPage", "cartPage",
     "checkoutInfoPage", "checkoutOverviewPage", "checkoutCompletePage",
     "checkoutCompilation", "headerComponents", "commonElements", "basePage"}

\* The field a getter returns.
GetterField(g) ==
    CASE g = "loginPage" -> "_loginPage"
      [] g = "inventoryPage" -> "_inventoryPage"
      [] g = "productDetailsPage" -> "_productDetailsPage"
      [] g = "cartPage" -> "_cartPage"
      [] g = "checkoutInfoPage" -> "_checkoutInfo"
      [] g = "checkoutOverviewPage" -> "_checkoutOverview"
      [] g = "checkoutCompletePage" -> "_checkoutComplete"
      [] g = "checkoutCompilation" -> "_checkoutComplete"
      [] g = "headerComponents" -> "_headerComponents"
      [] g = "commonElements" -> "_commonElements"
      [] g = "basePage" -> "_basePage"

POIdle ==
    /\ managerPage = "none"
    /\ poConstructed = {}
    /\ poBoundPage = [f \in ManagerFields |-> "none"]
    /\ poAccessed = {}

POInit == POIdle

\* new POManager(page): every field is assigned a page object made from page.
NewPOManager(page) ==
    /\ managerPage = "none"
    /\ managerPage' = page
    /\ poConstructed' = ManagerFields
    /\ poBoundPage' = [f \in ManagerFields |-> page]
    /\ UNCHANGED <<poAccessed, poFrame>>

\* A getter returns the field; it constructs nothing.
GetterAccess(g) ==
    /\ managerPage # "none"
    /\ poAccessed' = poAccessed \cup {g}
    /\ UNCHANGED <<managerPage, poConstructed, poBoundPage, poFrame>>

PONext ==
    \/ \E page \in PageHandles : NewPOManager(page)
    \/ \E g \in ManagerGetters : GetterAccess(g)

----------------------------------------------------------------------------
(* Driver operations issued by one page-object method call *)

MaxElements == 3    \* elements a list locator resolves to

DriverMethods ==
    {"LoginPage.login", "CheckoutInfoPage.fillCheckoutForm", "CartPage.waitForPageLoad",
     "CartPage.removeAllProducts", "CartPage.getTotalCartItemCount",
     "CartPage.getAllProductNames", "CheckoutOverviewPage.getAllProductNames",
     "HeaderComponents.getCartBadgeCount"}

\* One driver operation: its kind and what the method does when it rejects.
Op(kind, onFail) == [kind |-> kind, onFail |-> onFail]

Repeat(op, n) == [i \in 1..n |-> op]

\* The script of a method: batches in program order; the operations of one
\* batch are issued together, before any of them is awaited.
Script(m, n) ==
    CASE m = "LoginPage.login" ->
            << <<Op("fill", "handleError")>>, <<Op("fill", "handleError")>>,
               <<Op("click", "handleError")>>, <<Op("wait", "handleError")>> >>
      [] m = "CheckoutInfoPage.fillCheckoutForm" ->
            << <<Op("fill", "propagate")>>, <<Op("fill", "propagate")>>,
               <<Op("fill", "propagate")>> >>
      [] m = "CartPage.waitForPageLoad" ->
            << <<Op("wait", "propagate")>>, <<Op("wait", "describe")>> >>
      [] m = "CartPage.removeAllProducts" ->
            [k \in 1..(1 + 3 * n) |->
                IF k = 1 THEN <<Op("query", "propagate")>>
                ELSE CASE (k - 2) % 3 = 0 -> <<Op("click", "propagate")>>
                       [] (k - 2) % 3 = 1 -> <<Op("wait", "propagate")>>
                       [] OTHER -> <<Op("query", "propagate")>>]
      [] m = "CartPage.getTotalCartItemCount" ->
            [k \in 1..(1 + n) |-> <<Op("query", "propagate")>>]
      [] m \in {"CartPage.getAllProductNames", "CheckoutOverviewPage.getAllProductNames"} ->
            << <<Op("query", "propagate")>>, Repeat(Op("query", "propagate"), n) >>
      [] m = "HeaderComponents.getCartBadgeCount" ->
            << <<Op("query", "swallow")>> >>

DrvIdle ==
    /\ drvMethod = "none"
    /\ drvElements = 0
    /\ drvBatch = 0
    /\ drvOutstanding = {}
    /\ drvLog = <<>>
    /\ drvFailed = {}
    /\ drvOutcome = "idle"

DrvInit == DrvIdle

DrvScript == Script(drvMethod, drvElements)

DriverCall(m, n) ==
    /\ drvOutcome \in {"idle", "returned", "raised"}
    /\ drvOutstanding = {}
    /\ drvMethod' = m
    /\ drvElements' = n
    /\ drvBatch' = 0
    /\ drvLog' = <<>>
    /\ drvFailed' = {}
    /\ drvOutcome' = "running"
    /\ UNCHANGED <<drvOutstanding, drvFrame>>

\* The method reaches its next batch once everything before it has settled.
IssueBatch ==
    /\ drvOutcome = "running"
    /\ drvOutstanding = {}
    /\ drvBatch < Len(DrvScript)
    /\ LET b == drvBatch + 1
           ops == [i \in 1..Len(DrvScript[b]) |-> <<b, i>>]
       IN  /\ drvBatch' = b
           /\ drvOutstanding' = {ops[i] : i \in 1..Len(ops)}
           /\ drvLog' = drvLog \o ops
    /\ UNCHANGED <<drvMethod, drvElements, drvFailed, drvOutcome, drvFrame>>

OpSucceeds(op) ==
    /\ op \in drvOutstanding
    /\ drvOutstanding' = drvOutstanding \ {op}
    /\ UNCHANGED <<drvMethod, drvElements, drvBatch, drvLog, drvFailed, drvOutcome,
                   drvFrame>>

\* What the method does with the rejection of an operation it awaits.
AfterRejection(onFail) ==
    CASE onFail = "propagate" -> "raised"
      [] onFail = "describe" -> "raised"
      [] onFail = "handleError" -> "handling"
      [] onFail = "swallow" -> "returned"

OpFails(op) ==
    /\ op \in drvOutstanding
    /\ drvOutcome = "running"
    /\ drvOutstanding' = drvOutstanding \ {op}
    /\ drvFailed' = drvFailed \cup {op}
    /\ drvOutcome' = AfterRejection(DrvScript[op[1]][op[2]].onFail)
    /\ UNCHANGED <<drvMethod, drvElements, drvBatch, drvLog, drvFrame>>

\* Mutant: handleError takes the screenshot and does not throw.
HandleErrorOutcome_Swallowed == "returned"

\* BasePage.handleError: log, screenshot, throw error.
HandleErrorOutcome == "raised"

HandleError ==
    /\ drvOutcome = "handling"
    /\ drvOutcome' = HandleErrorOutcome
    /\ UNCHANGED <<drvMethod, drvElements, drvBatch, drvOutstanding, drvLog, drvFailed,
                   drvFrame>>

DriverReturn ==
    /\ drvOutcome = "running"
    /\ drvOutstanding = {}
    /\ drvBatch = Len(DrvScript)
    /\ drvOutcome' = "returned"
    /\ UNCHANGED <<drvMethod, drvElements, drvBatch, drvOutstanding, drvLog, drvFailed,
                   drvFrame>>

DrvOps == (1..(1 + 3 * (MaxElements + 1))) \X (1..(MaxElements + 1))

DrvNext ==
    \/ \E m \in DriverMethods, n \in 0..MaxElements : DriverCall(m, n)
    \/ IssueBatch
    \/ \E op \in DrvOps : OpSucceeds(op)
    \/ \E op \in DrvOps : OpFails(op)
    \/ HandleError
    \/ DriverReturn

----------------------------------------------------------------------------
(* TestDataLoader: credentials and environment *)

Undefined == "undefined"

\* fixtures/data/users.json: per user type the names of the environment
\* variables that hold its credentials.
UsersFixture ==
    [standard |-> [username |-> "STANDARD_USERNAME", password |-> "STANDARD_PASSWORD"]]

UserTypes == {"standard", "admin"}

\* fixtures/data/environments.json
EnvironmentsFixture ==
    [staging |-> [baseUrl |-> "https://www.saucedemo.com"],
     production |-> [baseUrl |-> "https://production.saucedemo.com"]]

EnvValues ==
    [STANDARD_USERNAME |-> {Undefined, "standard_user"},
     STANDARD_PASSWORD |-> {Undefined, "secret_sauce"},
     TEST_ENV |-> {Undefined, "staging", "production"}]

CfgInit ==
    /\ processEnv \in [DOMAIN EnvValues -> UNION {EnvValues[n] : n \in DOMAIN EnvValues}]
    /\ \A n \in DOMAIN EnvValues : processEnv[n] \in EnvValues[n]
    /\ credPc = "idle"
    /\ credResult = [username |-> Undefined, password |-> Undefined]
    /\ pageBaseURL = "none"
    /\ setupGotoUrl = "none"

CfgIdle ==
    /\ processEnv = [n \in DOMAIN EnvValues |-> Undefined]
    /\ credPc = "idle"
    /\ credResult = [username |-> Undefined, password |-> Undefined]
    /\ pageBaseURL = "none"
    /\ setupGotoUrl = "none"

\* TestDataLoader.getUserCredentials
GetUserCredentials(userType) ==
    /\ IF userType \notin DOMAIN UsersFixture
         THEN credPc' = "raised" /\ credResult' = credResult
         ELSE /\ credPc' = "returned"
              /\ credResult' = [username |-> processEnv[UsersFixture[userType].username],
                                password |-> processEnv[UsersFixture[userType].password]]
    /\ UNCHANGED <<processEnv, pageBaseURL, setupGotoUrl, cfgFrame>>

\* TestDataLoader.getEnvironment
getEnvironment(envName) == EnvironmentsFixture[envName]

\* BasePage.getCurrentEnvironment
getCurrentEnvironment ==
    IF processEnv["TEST_ENV"] \in {Undefined, ""} THEN "staging" ELSE processEnv["TEST_ENV"]

\* BasePage constructor: environment and baseURL.
NewBasePage ==
    /\ pageBaseURL' = getEnvironment("staging").baseUrl
    /\ UNCHANGED <<processEnv, credPc, credResult, setupGotoUrl, cfgFrame>>

\* globalSetup: page.goto(environment.baseUrl).
GlobalSetupGoto ==
    /\ setupGotoUrl' = getEnvironment("staging").baseUrl
    /\ UNCHANGED <<processEnv, credPc, credResult, pageBaseURL, cfgFrame>>

CfgNext ==
    \/ \E userType \in UserTypes : GetUserCredentials(userType)
    \/ NewBasePage
    \/ GlobalSetupGoto

----------------------------------------------------------------------------
(* Checkout: overview, completion and the ways through them *)

\* Mutant: the overview's cancel button leads back to step one.
OverviewCancelTarget_StepOne == "checkout-step-one"

\* Where the application goes when cancel is clicked on the overview.
OverviewCancelTarget == "inventory"

\* CheckoutOverviewPage.cancel
CheckoutOverviewCancel ==
    /\ pageUrl = "checkout-step-two"
    /\ pageUrl' = OverviewCancelTarget
    /\ lastShopOp' = "CheckoutOverviewPage.cancel"
    /\ UNCHANGED <<cartContents, detailsProduct, expectedCart, formVars, shopFrame>>

\* Mutant: finishing leaves the cart as it is.
CartAfterFinish_Kept(cart) == cart

\* The application empties the cart when the order is placed.
CartAfterFinish(cart) == {}

\* CheckoutOverviewPage.finish
CheckoutOverviewFinish ==
    /\ pageUrl = "checkout-step-two"
    /\ pageUrl' = "checkout-complete"
    /\ cartContents' = CartAfterFinish(cartContents)
    /\ checkoutForm' = EmptyCheckoutForm
    /\ lastShopOp' = "CheckoutOverviewPage.finish"
    /\ UNCHANGED <<detailsProduct, expectedCart, checkoutError, loginForm, shopFrame>>

\* CheckoutCompletePage.backToProducts
BackToProducts ==
    /\ pageUrl = "checkout-complete"
    /\ pageUrl' = "inventory"
    /\ lastShopOp' = "CheckoutCompletePage.backToProducts"
    /\ UNCHANGED <<cartContents, detailsProduct, expectedCart, formVars, shopFrame>>

\* CheckoutOverviewPage.goto and CheckoutCompletePage.goto: load the page by
\* its URL.
CheckoutPageGoto(url) ==
    /\ pageUrl' = url
    /\ checkoutForm' = EmptyCheckoutForm
    /\ checkoutError' = "none"
    /\ lastShopOp' = "goto"
    /\ UNCHANGED <<cartContents, detailsProduct, expectedCart, loginForm, shopFrame>>

CheckoutNext ==
    \/ \E p \in ShopProducts : InventoryAddProductToCart(p)
    \/ \E p \in ShopProducts : InventoryRemoveProductFromCart(p)
    \/ GoToCart
    \/ ContinueShopping
    \/ GoToCheckout
    \/ \E t \in FormTexts : FillCheckoutForm(t, t, t)
    \/ ContinueToOverview
    \/ CheckoutInfoCancel
    \/ CheckoutOverviewCancel
    \/ CheckoutOverviewFinish
    \/ BackToProducts
    \/ \E url \in {"checkout-step-two", "checkout-complete"} : CheckoutPageGoto(url)


----------------------------------------------------------------------------
(* Assertions: LoginPage.assertLoginFailed and the assertCartBadgeCount of
   InventoryPage, ProductDetailsPage and HeaderComponents *)

Origin == "https://www.saucedemo.com"

\* page.url() for the page shown, as the parts it is written from.
PageHref(p) ==
    IF p = "login" THEN <<Origin, "/">> ELSE <<Origin, "/", p, ".html">>

\* new RegExp(text).test(url) for a text without metacharacters: the text
\* occurs somewhere in the url.
RegExpTest(text, url) ==
    \E i \in 0..(Len(url) - Len(text)) : SubSeq(url, i + 1, i + Len(text)) = text

\* [data-test="error"]: the login page's error after a rejected login, and
\* step one's error after a rejected continue.
ErrorShown ==
    \/ pageUrl = "login" /\ chkLoginError
    \/ pageUrl = "checkout-step-one" /\ checkoutError # "none"

NoCall == [method |-> "none", n |-> 0]

ChkInit ==
    /\ chkLoginError = FALSE
    /\ chkCall = NoCall
    /\ chkVerdict = "none"
    /\ chkReadAbsent = FALSE

ChkIdle == ChkInit

\* LoginPage.goto: the login page, no error shown.
LoginPageGoto ==
    /\ pageUrl' = "login"
    /\ chkLoginError' = FALSE
    /\ lastShopOp' = "LoginPage.goto"
    /\ UNCHANGED <<cartContents, detailsProduct, expectedCart, formVars, chkCall,
                   chkVerdict, chkReadAbsent, loginFrame>>

\* LoginPage.login(username, password, false): the application accepts the
\* credentials and shows the inventory, or rejects them and shows its error.
LoginSubmit(accepted) ==
    /\ pageUrl = "login"
    /\ pageUrl' = IF accepted THEN "inventory" ELSE "login"
    /\ chkLoginError' = ~accepted
    /\ lastShopOp' = "LoginPage.login"
    /\ UNCHANGED <<cartContents, detailsProduct, expectedCart, formVars, chkCall,
                   chkVerdict, chkReadAbsent, loginFrame>>

\* LoginPage.waitForErrorMessage: resolves when the error is visible within
\* the timeout, rejects otherwise.
WaitForErrorMessage == ErrorShown

\* BasePage.assertURLContains
AssertURLContains(text) == RegExpTest(text, PageHref(pageUrl))

\* LoginPage.assertLoginFailed: waitForErrorMessage, then assertURLContains('').
AssertLoginFailedPasses == WaitForErrorMessage /\ AssertURLContains(<<>>)

AssertLoginFailed ==
    /\ chkCall' = [method |-> "LoginPage.assertLoginFailed", n |-> 0]
    /\ chkVerdict' = IF AssertLoginFailedPasses THEN "passed" ELSE "failed"
    /\ UNCHANGED <<chkLoginError, chkReadAbsent, chkFrame>>

\* What a read of the badge's text does: the text while the badge is there,
\* a rejection after the timeout while it is not.
Rejected == [null |-> TRUE, text |-> <<"rejected">>]
BadgeTextContent == IF BadgeVisible THEN Text(BadgeText) ELSE Rejected

Verdict(passes, readAbsent) ==
    [verdict |-> IF passes THEN "passed" ELSE "failed", readAbsent |-> readAbsent]

\* InventoryPage.assertCartBadgeCount; its getCartItemCount reads the text
\* only after isVisible() answered true.
InventoryAssertCartBadgeCount(expectedCount) ==
    IF expectedCount = 0 THEN Verdict(~BadgeVisible, FALSE)
    ELSE IF ~BadgeVisible THEN Verdict(FALSE, FALSE)
    ELSE Verdict(InventoryGetCartItemCount = Num(expectedCount), FALSE)

\* ProductDetailsPage.getCartItemCount: textContent() without a visibility
\* check; badgeText ? parseInt(badgeText) : 0.
DetailsGetCartItemCount ==
    [rejected |-> BadgeTextContent = Rejected,
     value |-> IF Truthy(BadgeTextContent) THEN ParseInt(BadgeTextContent.text)
               ELSE Num(0)]

\* Mutant: the assertion goes on to the count when the badge is not visible.
DetailsBadgeSeen_Unchecked == TRUE

\* expect(this.cartBadge).toBeVisible() of ProductDetailsPage.
DetailsBadgeSeen == BadgeVisible

\* ProductDetailsPage.assertCartBadgeCount
DetailsAssertCartBadgeCount(expectedCount) ==
    IF expectedCount = 0 THEN Verdict(~BadgeVisible, FALSE)
    ELSE IF ~DetailsBadgeSeen THEN Verdict(FALSE, FALSE)
    ELSE Verdict(/\ ~DetailsGetCartItemCount.rejected
                 /\ DetailsGetCartItemCount.value = Num(expectedCount),
                 DetailsGetCartItemCount.rejected)

\* HeaderComponents.getCartBadgeCount: as above, inside try; the catch
\* returns 0.
HeaderGetCartBadgeCount ==
    [rejected |-> BadgeTextContent = Rejected,
     value |-> IF BadgeTextContent = Rejected THEN Num(0)
               ELSE IF Truthy(BadgeTextContent) THEN ParseInt(BadgeTextContent.text)
               ELSE Num(0)]

\* HeaderComponents.assertCartBadgeCount
HeaderAssertCartBadgeCount(expectedCount) ==
    IF expectedCount = 0 THEN Verdict(~BadgeVisible, FALSE)
    ELSE IF ~BadgeVisible THEN Verdict(FALSE, FALSE)
    ELSE Verdict(HeaderGetCartBadgeCount.value = Num(expectedCount),
                 HeaderGetCartBadgeCount.rejected)

BadgeAsserters ==
    {"InventoryPage.assertCartBadgeCount", "ProductDetailsPage.assertCartBadgeCount",
     "HeaderComponents.assertCartBadgeCount"}

AssertCartBadgeCountOf(impl, expectedCount) ==
    CASE impl = "InventoryPage.assertCartBadgeCount" ->
            InventoryAssertCartBadgeCount(expectedCount)
      [] impl = "ProductDetailsPage.assertCartBadgeCount" ->
            DetailsAssertCartBadgeCount(expectedCount)
      [] impl = "HeaderComponents.assertCartBadgeCount" ->
            HeaderAssertCartBadgeCount(expectedCount)

\* The counts a test asserts.
ExpectedCounts == 0..(MaxProducts + 1)

AssertCartBadgeCount(impl, expectedCount) ==
    /\ pageUrl # "login"
    /\ chkCall' = [method |-> impl, n |-> expectedCount]
    /\ chkVerdict' = AssertCartBadgeCountOf(impl, expectedCount).verdict
    /\ chkReadAbsent' =
          (chkReadAbsent \/ AssertCartBadgeCountOf(impl, expectedCount).readAbsent)
    /\ UNCHANGED <<chkLoginError, chkFrame>>

ChkNext ==
    \/ LoginPageGoto
    \/ \E accepted \in BOOLEAN : LoginSubmit(accepted)
    \/ AssertLoginFailed
    \/ \E impl \in BadgeAsserters, n \in ExpectedCounts : AssertCartBadgeCount(impl, n)
    \/ \E p \in ShopProducts : InventoryAddProductToCart(p)
    \/ \E p \in ShopProducts : InventoryRemoveProductFromCart(p)
    \/ GoToCart
    \/ ContinueShopping
    \/ GoToCheckout
    \/ ContinueToOverview
    \/ CheckoutInfoCancel


----------------------------------------------------------------------------
(* BasePage.goto and InventoryPage.goto *)

StartsWith(s, prefix) ==
    Len(prefix) <= Len(s) /\ SubSeq(s, 1, Len(prefix)) = prefix
EndsWith(s, suffix) ==
    Len(suffix) <= Len(s) /\ SubSeq(s, Len(s) - Len(suffix) + 1, Len(s)) = suffix
Includes(s, part) ==
    \E i \in 0..(Len(s) - Len(part)) : SubSeq(s, i + 1, i + Len(part)) = part

\* "https://www.saucedemo.com"
SiteOrigin ==
    <<"h", "t", "t", "p", "s", ":", "/", "/", "w", "w", "w", ".", "s", "a", "u", "c", "e", "d", "e", "m", "o", ".", "c", "o", "m">>

\* "http"
HttpPrefix == <<"h", "t", "t", "p">>

\* "/inventory" and "/inventory.html"
InventoryMark == <<"/", "i", "n", "v", "e", "n", "t", "o", "r", "y">>
InventoryPath == InventoryMark \o <<".", "h", "t", "m", "l">>

\* baseUrl as an environment of the fixture may write it.
NavBases == {SiteOrigin, SiteOrigin \o <<"/">>}

\* Paths handed to goto: none, relative with and without a leading slash, and
\* an absolute URL.
NavPaths ==
    { <<>>, <<"/">>, <<"c">>, <<"/", "c">>, InventoryPath, Tail(InventoryPath),
      HttpPrefix \o <<":", "/", "/", "o">> }

\* Mutant: the slash is put in front of every path.
CleanPath_Always(path) == <<"/">> \o path

\* path.startsWith('/') ? path : `/${path}`
CleanPath(path) == IF StartsWith(path, <<"/">>) THEN path ELSE <<"/">> \o path

\* The URL BasePage.goto computes.
GotoUrl(base, path) ==
    IF StartsWith(path, HttpPrefix) THEN path
    ELSE LET baseUrl == IF EndsWith(base, <<"/">>)
                          THEN SubSeq(base, 1, Len(base) - 1) ELSE base
         IN  baseUrl \o CleanPath(path)

NavIdle ==
    /\ navMethod = "none"
    /\ navBase = <<>>
    /\ navPath = <<>>
    /\ navTarget = <<>>
    /\ navUrl = <<>>
    /\ navPc = "idle"
    /\ navLog = <<>>
    /\ navError = "none"

NavInit == NavIdle

NavCall(method, base, path) ==
    /\ navPc \in {"idle", "returned", "raised"}
    /\ navMethod' = method
    /\ navBase' = base
    /\ navPath' = path
    /\ navTarget' = GotoUrl(base, path)
    /\ navLog' = <<"page.goto">>
    /\ navPc' = "navigating"
    /\ navError' = "none"
    /\ UNCHANGED <<navUrl, navFrame>>

\* goto(path): build the URL, call page.goto.
BasePageGoto(base, path) == NavCall("BasePage.goto", base, path)

\* InventoryPage.goto: super.goto('/inventory.html').
InventoryPageGoto(base) == NavCall("InventoryPage.goto", base, InventoryPath)

\* Where the browser ends up: at the URL asked for, or, asked for the
\* inventory without a session, at the login page the application redirects to.
LandingUrls(target) ==
    {target} \cup
    (IF EndsWith(target, InventoryPath)
       THEN {SubSeq(target, 1, Len(target) - Len(InventoryPath)) \o <<"/">>}
       ELSE {})

\* page.goto resolves; goto goes on to waitForLoadState.
NavigationReturns(url) ==
    /\ navPc = "navigating"
    /\ url \in LandingUrls(navTarget)
    /\ navUrl' = url
    /\ navLog' = navLog \o <<"page.goto returned", "waitForLoadState">>
    /\ navPc' = "loading"
    /\ UNCHANGED <<navMethod, navBase, navPath, navTarget, navError, navFrame>>

\* page.goto or a wait rejects: the error leaves the call as it is.
NavStepFails ==
    /\ navPc \in {"navigating", "loading", "pageLoad"}
    /\ navPc' = "raised"
    /\ navError' = "driver"
    /\ UNCHANGED <<navMethod, navBase, navPath, navTarget, navUrl, navLog, navFrame>>

\* Mutant: every URL but the inventory page's own path counts as a redirect.
AuthenticationFailed_ExactPath(currentUrl) ==
    Includes(currentUrl, <<"/">>) /\ currentUrl # InventoryPath

\* currentUrl.includes('/') && !currentUrl.includes('/inventory')
AuthenticationFailed(currentUrl) ==
    Includes(currentUrl, <<"/">>) /\ ~Includes(currentUrl, InventoryMark)

\* waitForLoadState resolves: BasePage.goto returns; InventoryPage.goto reads
\* page.url() and either warns and turns to the screenshot or enters
\* waitForPageLoad.
LoadStateReached ==
    /\ navPc = "loading"
    /\ IF navMethod = "BasePage.goto"
         THEN /\ navPc' = "returned"
              /\ UNCHANGED navLog
         ELSE IF AuthenticationFailed(navUrl)
                THEN /\ navPc' = "authScreenshot"
                     /\ navLog' = navLog \o <<"console.warn", "page.screenshot">>
                ELSE /\ navPc' = "pageLoad"
                     /\ navLog' = Append(navLog, "waitForLoadState")
    /\ UNCHANGED <<navMethod, navBase, navPath, navTarget, navUrl, navError, navFrame>>

\* The screenshot is written; the authentication error is thrown.
AuthenticationErrorThrown ==
    /\ navPc = "authScreenshot"
    /\ navLog' = Append(navLog, "page.screenshot returned")
    /\ navPc' = "raised"
    /\ navError' = "Authentication failed"
    /\ UNCHANGED <<navMethod, navBase, navPath, navTarget, navUrl, navFrame>>

\* InventoryPage.waitForPageLoad: the load state, then the container wait.
ContainerWaitStarts ==
    /\ navPc = "pageLoad"
    /\ navLog' = Append(navLog, "waitForElement")
    /\ navPc' = "container"
    /\ UNCHANGED <<navMethod, navBase, navPath, navTarget, navUrl, navError, navFrame>>

ContainerAppears ==
    /\ navPc = "container"
    /\ navPc' = "returned"
    /\ UNCHANGED <<navMethod, navBase, navPath, navTarget, navUrl, navLog, navError,
                   navFrame>>

\* The container wait times out: screenshot, descriptive error.
ContainerTimesOut ==
    /\ navPc = "container"
    /\ navLog' = navLog \o <<"page.screenshot", "page.screenshot returned">>
    /\ navPc' = "raised"
    /\ navError' = "Inventory page not loaded properly"
    /\ UNCHANGED <<navMethod, navBase, navPath, navTarget, navUrl, navFrame>>

NavNext ==
    \/ \E base \in NavBases, path \in NavPaths : BasePageGoto(base, path)
    \/ \E base \in NavBases : InventoryPageGoto(base)
    \/ \E url \in LandingUrls(navTarget) : NavigationReturns(url)
    \/ NavStepFails
    \/ LoadStateReached
    \/ AuthenticationErrorThrown
    \/ ContainerWaitStarts
    \/ ContainerAppears
    \/ ContainerTimesOut


----------------------------------------------------------------------------
(* CartPage.removeAllProducts *)

\* Carts the page can show: each product at most once, in any order.
RECURSIVE CartListings(_)
CartListings(products) ==
    {<<>>} \cup
    UNION {{<<p>> \o rest : rest \in CartListings(products \ {p})} : p \in products}

RmInit ==
    /\ rmLines \in CartListings(1..MaxProducts)
    /\ rmInitial = <<>>
    /\ rmButtonCount = 0
    /\ rmPc = "idle"
    /\ rmClicked = <<>>
    /\ rmLog = <<>>

RmIdle ==
    /\ rmLines = <<>>
    /\ rmInitial = <<>>
    /\ rmButtonCount = 0
    /\ rmPc = "idle"
    /\ rmClicked = <<>>
    /\ rmLog = <<>>

\* this.removeButtons.count(): one remove button per line item.
RemoveButtonsCount == Len(rmLines)

\* let buttonCount = await this.removeButtons.count()
RemoveAllProductsCall ==
    /\ rmPc = "idle"
    /\ rmInitial' = rmLines
    /\ rmButtonCount' = RemoveButtonsCount
    /\ rmLog' = <<"count">>
    /\ rmPc' = "loop"
    /\ UNCHANGED <<rmLines, rmClicked, rmFrame>>

\* Mutant: the last remove button is the one clicked.
RemoveButtonsFirst_Last(lines) == Len(lines)

\* this.removeButtons.first(): the button of the first line item.
RemoveButtonsFirst(lines) == 1

\* The application's answer to a click: the clicked line item is gone.
LinesAfterClick(lines, k) ==
    [i \in 1..(Len(lines) - 1) |-> IF i < k THEN lines[i] ELSE lines[i + 1]]

\* while (buttonCount > 0): click the first button, or leave the loop.
RemoveLoopTest ==
    /\ rmPc = "loop"
    /\ IF rmButtonCount > 0
         THEN /\ rmClicked' = Append(rmClicked, rmLines[RemoveButtonsFirst(rmLines)])
              /\ rmLines' = LinesAfterClick(rmLines, RemoveButtonsFirst(rmLines))
              /\ rmLog' = Append(rmLog, "click")
              /\ rmPc' = "clicked"
         ELSE /\ rmPc' = "returned"
              /\ UNCHANGED <<rmLines, rmClicked, rmLog>>
    /\ UNCHANGED <<rmInitial, rmButtonCount, rmFrame>>

\* await this.page.waitForTimeout(100)
RemoveWaitForTimeout ==
    /\ rmPc = "clicked"
    /\ rmLog' = Append(rmLog, "waitForTimeout")
    /\ rmPc' = "waited"
    /\ UNCHANGED <<rmLines, rmInitial, rmButtonCount, rmClicked, rmFrame>>

\* buttonCount = await this.removeButtons.count()
RemoveRecount ==
    /\ rmPc = "waited"
    /\ rmButtonCount' = RemoveButtonsCount
    /\ rmLog' = Append(rmLog, "count")
    /\ rmPc' = "loop"
    /\ UNCHANGED <<rmLines, rmInitial, rmClicked, rmFrame>>

RmNext ==
    \/ RemoveAllProductsCall
    \/ RemoveLoopTest
    \/ RemoveWaitForTimeout
    \/ RemoveRecount


----------------------------------------------------------------------------
(* HeaderComponents: openMenu and the menu links *)

MaxHeaderCalls == 3     \* header calls of one test

MenuLinkMethods == {"goToAllItems", "goToAbout", "logout", "resetApp"}
HeaderMethods == {"openMenu", "closeMenu"} \cup MenuLinkMethods

NoHeaderCall == [method |-> "none", menuAtCall |-> "closed"]

HdrIdle ==
    /\ hdrMenu = "closed"
    /\ hdrCur = NoHeaderCall
    /\ hdrPrev = NoHeaderCall
    /\ hdrPc = "ready"
    /\ hdrLog = <<>>
    /\ hdrCalls = 0

HdrInit == HdrIdle

\* A test calls a header method: closeMenu goes to its click, the others
\* begin with isMenuOpen().
HeaderCall(m) ==
    /\ hdrPc = "ready"
    /\ hdrCalls < MaxHeaderCalls
    /\ hdrCalls' = hdrCalls + 1
    /\ hdrPrev' = hdrCur
    /\ hdrCur' = [method |-> m, menuAtCall |-> hdrMenu]
    /\ hdrLog' = <<>>
    /\ hdrPc' = CASE m = "closeMenu" -> "closeMenu:click"
                  [] m = "openMenu" -> "openMenu:isMenuOpen"
                  [] OTHER -> "link:isMenuOpen"
    /\ UNCHANGED <<hdrMenu, hdrFrame>>

\* isMenuOpen(): is #react-burger-cross-btn visible; it is from the moment
\* the menu starts to open until it has finished closing.
HeaderIsMenuOpen == hdrMenu # "closed"

\* if (!(await this.isMenuOpen())) await this.openMenu() of a link method.
LinkChecksMenu ==
    /\ hdrPc = "link:isMenuOpen"
    /\ hdrLog' = Append(hdrLog, IF HeaderIsMenuOpen THEN "isMenuOpen: true"
                                ELSE "isMenuOpen: false")
    /\ hdrPc' = IF HeaderIsMenuOpen THEN "link:click" ELSE "openMenu:isMenuOpen"
    /\ UNCHANGED <<hdrMenu, hdrCur, hdrPrev, hdrCalls, hdrFrame>>

\* Mutant: openMenu clicks the menu button whatever isMenuOpen() answers.
OpenMenuReturnsEarly_Never == FALSE

\* if (await this.isMenuOpen()) return
OpenMenuReturnsEarly == HeaderIsMenuOpen

\* openMenu's own look at the menu: return at once, or go on to the click.
OpenMenuChecksMenu ==
    /\ hdrPc = "openMenu:isMenuOpen"
    /\ IF OpenMenuReturnsEarly
         THEN /\ hdrLog' = Append(hdrLog, "openMenu returned")
              /\ hdrPc' = IF hdrCur.method = "openMenu" THEN "ready" ELSE "link:click"
         ELSE /\ hdrPc' = "openMenu:click"
              /\ UNCHANGED hdrLog
    /\ UNCHANGED <<hdrMenu, hdrCur, hdrPrev, hdrCalls, hdrFrame>>

\* await this.menuButton.click(): a closed menu starts to open.
MenuButtonClick ==
    /\ hdrPc = "openMenu:click"
    /\ hdrMenu' = IF hdrMenu = "closed" THEN "opening" ELSE hdrMenu
    /\ hdrLog' = Append(hdrLog, "menuButton.click")
    /\ hdrPc' = "openMenu:waitFor"
    /\ UNCHANGED <<hdrCur, hdrPrev, hdrCalls, hdrFrame>>

\* The close button is visible and the 300 ms have passed: openMenu returns.
OpenMenuCompletes ==
    /\ hdrPc = "openMenu:waitFor"
    /\ HeaderIsMenuOpen
    /\ hdrLog' = Append(hdrLog, "openMenu returned")
    /\ hdrPc' = IF hdrCur.method = "openMenu" THEN "ready" ELSE "link:click"
    /\ UNCHANGED <<hdrMenu, hdrCur, hdrPrev, hdrCalls, hdrFrame>>

\* The link is clicked through the DOM; resetApp leaves the page and its
\* menu as they are, the other links load a page, whose menu is closed.
MenuLinkClick ==
    /\ hdrPc = "link:click"
    /\ hdrLog' = Append(hdrLog, "link.click")
    /\ hdrMenu' = IF hdrCur.method = "resetApp" THEN hdrMenu ELSE "closed"
    /\ hdrPc' = "ready"
    /\ UNCHANGED <<hdrCur, hdrPrev, hdrCalls, hdrFrame>>

\* closeMenu: the close button is clicked through the DOM; an open menu
\* starts to close.
CloseMenuClick ==
    /\ hdrPc = "closeMenu:click"
    /\ hdrMenu' = IF hdrMenu \in {"open", "opening"} THEN "closing" ELSE hdrMenu
    /\ hdrLog' = Append(hdrLog, "closeButton.click")
    /\ hdrPc' = "ready"
    /\ UNCHANGED <<hdrCur, hdrPrev, hdrCalls, hdrFrame>>

\* The application's animation ends.
MenuSettles ==
    /\ hdrMenu \in {"opening", "closing"}
    /\ hdrMenu' = IF hdrMenu = "opening" THEN "open" ELSE "closed"
    /\ UNCHANGED <<hdrCur, hdrPrev, hdrPc, hdrLog, hdrCalls, hdrFrame>>

HdrNext ==
    \/ \E m \in HeaderMethods : HeaderCall(m)
    \/ LinkChecksMenu
    \/ OpenMenuChecksMenu
    \/ MenuButtonClick
    \/ OpenMenuCompletes
    \/ MenuLinkClick
    \/ CloseMenuClick
    \/ MenuSettles


----------------------------------------------------------------------------
(* LoginPage.login *)

LoginSteps == <<"usernameInput.fill", "passwordInput.fill", "loginButton.click",
                "page.waitForURL">>

NoError == [from |-> "none"]
\* The rejection of a driver operation.
ErrorOf(step) == [from |-> step]

\* Credentials the tests log in with; the application accepts the first
\* user with the first password only.
LoginUsernames == {"standard_user", "locked_out_user", "wrong_user"}
LoginPasswords == {"secret_sauce", "wrong_password"}
Accepted(username, password) ==
    username = "standard_user" /\ password = "secret_sauce"

LgnIdle ==
    /\ lgnUsername = "standard_user"
    /\ lgnPassword = "secret_sauce"
    /\ lgnWaitForRedirect = TRUE
    /\ lgnPc = "idle"
    /\ lgnLog = <<>>
    /\ lgnCaught = NoError
    /\ lgnScreenshots = 0
    /\ lgnRaised = NoError

LgnInit == LgnIdle

\* login(username, password, waitForRedirect) is entered and issues its
\* first fill.
Login(username, password, waitForRedirect) ==
    /\ lgnPc \in {"idle", "returned", "raised"}
    /\ lgnUsername' = username
    /\ lgnPassword' = password
    /\ lgnWaitForRedirect' = waitForRedirect
    /\ lgnPc' = LoginSteps[1]
    /\ lgnLog' = <<LoginSteps[1]>>
    /\ lgnCaught' = NoError
    /\ lgnScreenshots' = 0
    /\ lgnRaised' = NoError
    /\ UNCHANGED lgnFrame

LoginStepIndex == CHOOSE k \in DOMAIN LoginSteps : LoginSteps[k] = lgnPc

\* The step after k: the URL wait is a step only if (waitForRedirect).
LoginAfter(k) ==
    IF k < 3 \/ (k = 3 /\ lgnWaitForRedirect) THEN LoginSteps[k + 1] ELSE "returned"

\* The awaited operation resolves: login issues the next one or returns.
\* The URL wait resolves only if the application lets the user in.
LoginStepSucceeds ==
    /\ \E k \in DOMAIN LoginSteps : LoginSteps[k] = lgnPc
    /\ lgnPc = "page.waitForURL" => Accepted(lgnUsername, lgnPassword)
    /\ lgnPc' = LoginAfter(LoginStepIndex)
    /\ lgnLog' = IF LoginAfter(LoginStepIndex) = "returned" THEN lgnLog
                 ELSE Append(lgnLog, LoginAfter(LoginStepIndex))
    /\ UNCHANGED <<lgnUsername, lgnPassword, lgnWaitForRedirect, lgnCaught, lgnScreenshots, lgnRaised,
                   lgnFrame>>

\* The awaited operation rejects: catch (error) calls handleError.
LoginStepFails ==
    /\ \E k \in DOMAIN LoginSteps : LoginSteps[k] = lgnPc
    /\ lgnCaught' = ErrorOf(lgnPc)
    /\ lgnPc' = "handleError"
    /\ UNCHANGED <<lgnUsername, lgnPassword, lgnWaitForRedirect, lgnLog, lgnScreenshots, lgnRaised,
                   lgnFrame>>

\* Mutant: handleError throws an error of its own.
HandleErrorThrows_New(error) == ErrorOf("handleError")

\* handleError's `throw error`.
HandleErrorThrows(error) == error

\* handleError(error, 'login'): log, screenshot, throw; the `throw error` of
\* login's catch block is not reached.
LoginHandleError ==
    /\ lgnPc = "handleError"
    /\ lgnScreenshots' = lgnScreenshots + 1
    /\ lgnRaised' = HandleErrorThrows(lgnCaught)
    /\ lgnPc' = "raised"
    /\ UNCHANGED <<lgnUsername, lgnPassword, lgnWaitForRedirect, lgnLog, lgnCaught, lgnFrame>>

LgnNext ==
    \/ \E username \in LoginUsernames, password \in LoginPasswords,
          waitForRedirect \in BOOLEAN : Login(username, password, waitForRedirect)
    \/ LoginStepSucceeds
    \/ LoginStepFails
    \/ LoginHandleError

----------------------------------------------------------------------------
(* Specifications: one per page object under study, the others at rest *)

KitIdle == POIdle /\ DrvIdle /\ CfgIdle /\ ChkIdle /\ NavIdle /\ RmIdle /\ HdrIdle /\ LgnIdle
RunIdle == MenuIdle /\ WaitIdle /\ AuthIdle /\ KitIdle
PagesIdle == SortIdle /\ CountIdle /\ SummaryIdle /\ ShopIdle /\ FormIdle

SortSpecInit == SortInit /\ CountIdle /\ SummaryIdle /\ ShopIdle /\ FormIdle /\ RunIdle
SortSpec == SortSpecInit /\ [][SortNext]_vars

CountSpecInit == SortIdle /\ CountInit /\ SummaryIdle /\ ShopIdle /\ FormIdle /\ RunIdle
CountSpec == CountSpecInit /\ [][CountNext]_vars

SummarySpecInit == SortIdle /\ CountIdle /\ SummaryInit /\ ShopIdle /\ FormIdle /\ RunIdle
SummarySpec == SummarySpecInit /\ [][SummaryNext]_vars

ShopSpecInit == SortIdle /\ CountIdle /\ SummaryIdle /\ ShopInit /\ FormIdle /\ RunIdle
ShopSpec == ShopSpecInit /\ [][ShopNext]_vars

FormSpecInit == SortIdle /\ CountIdle /\ SummaryIdle /\ FormInit /\ RunIdle
FormSpec == FormSpecInit /\ [][FormNext]_vars

CheckoutSpecInit == SortIdle /\ CountIdle /\ SummaryIdle /\ ShopInit /\ FormIdle /\ RunIdle
CheckoutSpec == CheckoutSpecInit /\ [][CheckoutNext]_vars

AssertSpecInit == SortIdle /\ CountIdle /\ SummaryIdle /\ ShopInit /\ FormIdle /\ RunIdle
AssertSpec == AssertSpecInit /\ [][ChkNext]_vars

MenuSpecInit == PagesIdle /\ MenuInit /\ WaitIdle /\ AuthIdle /\ KitIdle
MenuSpec == MenuSpecInit /\ [][MenuNext]_vars

WaitSpecInit == PagesIdle /\ MenuIdle /\ WaitInit /\ AuthIdle /\ KitIdle
WaitSpec == WaitSpecInit /\ [][WaitNext]_vars

AuthSpecInit == PagesIdle /\ MenuIdle /\ WaitIdle /\ AuthInit /\ KitIdle
AuthSpec == AuthSpecInit /\ [][AuthNext]_vars

BaseIdle == PagesIdle /\ MenuIdle /\ WaitIdle /\ AuthIdle

POSpecInit == BaseIdle /\ POInit /\ DrvIdle /\ CfgIdle /\ ChkIdle /\ NavIdle /\ RmIdle /\ HdrIdle /\ LgnIdle
POSpec == POSpecInit /\ [][PONext]_vars

DrvSpecInit == BaseIdle /\ POIdle /\ DrvInit /\ CfgIdle /\ ChkIdle /\ NavIdle /\ RmIdle /\ HdrIdle /\ LgnIdle
DrvSpec == DrvSpecInit /\ [][DrvNext]_vars

CfgSpecInit == BaseIdle /\ POIdle /\ DrvIdle /\ CfgInit /\ ChkIdle /\ NavIdle /\ RmIdle /\ HdrIdle /\ LgnIdle
CfgSpec == CfgSpecInit /\ [][CfgNext]_vars

NavSpecInit == BaseIdle /\ POIdle /\ DrvIdle /\ CfgIdle /\ ChkIdle /\ NavInit /\ RmIdle /\ HdrIdle /\ LgnIdle
NavSpec == NavSpecInit /\ [][NavNext]_vars

RmSpecInit == BaseIdle /\ POIdle /\ DrvIdle /\ CfgIdle /\ ChkIdle /\ NavIdle /\ RmInit /\ HdrIdle /\ LgnIdle
RmSpec == RmSpecInit /\ [][RmNext]_vars

\* The call keeps running: the driver answers every operation it awaits.
RmFairSpec == RmSpec /\ WF_vars(RmNext)

HdrSpecInit == BaseIdle /\ POIdle /\ DrvIdle /\ CfgIdle /\ ChkIdle /\ NavIdle /\ RmIdle /\ HdrInit /\ LgnIdle
HdrSpec == HdrSpecInit /\ [][HdrNext]_vars

LgnSpecInit == BaseIdle /\ POIdle /\ DrvIdle /\ CfgIdle /\ ChkIdle /\ NavIdle /\ RmIdle /\ HdrIdle /\ LgnInit
LgnSpec == LgnSpecInit /\ [][LgnNext]_vars

----------------------------------------------------------------------------
(* Sort-order claims *)

SortDone == sortPc \in {"passed", "raised"}

\* a precedes-or-equals b in code-unit order, stated by position.
NameBeforeOrEqual(a, b) ==
    \/ /\ Len(a) <= Len(b)
       /\ \A k \in 1..Len(a) : a[k] = b[k]
    \/ \E k \in 1..Len(a) :
          /\ k <= Len(b)
          /\ \A j \in 1..(k - 1) : a[j] = b[j]
          /\ CodeUnit(a[k]) < CodeUnit(b[k])

NamesInOrder(order) ==
    \A k \in 1..(Len(inventoryItems) - 1) :
        LET a == Catalog[inventoryItems[k]].name
            b == Catalog[inventoryItems[k + 1]].name
        IN  IF order = "asc" THEN NameBeforeOrEqual(a, b) ELSE NameBeforeOrEqual(b, a)

PricesInOrder(order) ==
    \A k \in 1..(Len(inventoryItems) - 1) :
        LET a == Catalog[inventoryItems[k]].thousandths
            b == Catalog[inventoryItems[k + 1]].thousandths
        IN  IF order = "asc" THEN a <= b ELSE a >= b

\* C1: a finished assertProductsSorted('name', order), order asc or desc, has
\* passed exactly when every adjacent pair of displayed names is in that order
\* under code-unit string comparison, and has raised otherwise.
C1_NameSortVerdict ==
    (SortDone /\ sortType = "name" /\ sortOrder \in {"asc", "desc"})
        => ((sortPc = "passed") <=> NamesInOrder(sortOrder))

\* C1 witness: a descending check of three names raised, and an ascending
\* check of an ordered list of three names passed is reachable likewise.
C1_Witness ==
    /\ sortPc = "raised" /\ sortType = "name" /\ sortOrder = "desc"
    /\ Len(inventoryItems) = 3
    /\ sortI = 1

\* C2: a finished assertProductsSorted('price', order), order asc or desc, has
\* passed exactly when the amounts the displayed price texts denote are in
\* that order pairwise, and has raised otherwise.
C2_PriceSortVerdict ==
    (SortDone /\ sortType = "price" /\ sortOrder \in {"asc", "desc"})
        => ((sortPc = "passed") <=> PricesInOrder(sortOrder))

\* C2 witness: an ascending price check passed over $7.5, $9.99, $10.00, a
\* list whose texts are not in string order.
C2_Witness ==
    /\ sortPc = "passed" /\ sortType = "price" /\ sortOrder = "asc"
    /\ inventoryItems = <<3, 1, 2>>

----------------------------------------------------------------------------
(* Cart total and checkout total claims *)

RECURSIVE SumUnits(_)
SumUnits(lines) ==
    IF lines = <<>> THEN 0
    ELSE QuantityCatalog[Head(lines)].units + SumUnits(Tail(lines))

\* C3: getTotalCartItemCount returns a number, never NaN, that is the sum over
\* the line items of the integer each quantity text denotes, an empty, missing
\* or unparsable text counting 0.
C3_TotalIsSumDefaultingToZero ==
    countPc = "returned"
        => (~totalCount.nan /\ totalCount.val = SumUnits(cartLines))

----------------------------------------------------------------------------
(* Form claims *)

FieldValue(f) ==
    CASE f = "firstName" -> getFirstNameValue
      [] f = "lastName" -> getLastNameValue
      [] f = "postalCode" -> getPostalCodeValue
      [] f = "username" -> getUsernameValue
      [] f = "password" -> getPasswordValue

FillOf(f, t) ==
    CASE f = "firstName" -> FillFirstName(t)
      [] f = "lastName" -> FillLastName(t)
      [] f = "postalCode" -> FillPostalCode(t)
      [] f = "username" -> FillUsername(t)
      [] f = "password" -> FillPassword(t)

FirstMissingMessage(form) ==
    CHOOSE m \in {"Error: First Name is required", "Error: Last Name is required",
                  "Error: Postal Code is required"} :
        \/ m = "Error: First Name is required" /\ form["firstName"] = <<>>
        \/ /\ m = "Error: Last Name is required"
           /\ form["firstName"] # <<>> /\ form["lastName"] = <<>>
        \/ /\ m = "Error: Postal Code is required"
           /\ form["firstName"] # <<>> /\ form["lastName"] # <<>>
           /\ form["postalCode"] = <<>>

\* C6: continue on step one with a field empty stays on step one and shows
\* the error of the first missing field (first name, last name, postal
\* code); with all three filled it reaches step two.
C6_ContinueValidates ==
    [][ContinueToOverview =>
          IF \E f \in CheckoutFields : checkoutForm[f] = <<>>
            THEN /\ pageUrl' = "checkout-step-one"
                 /\ checkoutError' = FirstMissingMessage(checkoutForm)
            ELSE pageUrl' = "checkout-step-two"]_vars

\* C6 witness: only the postal code is filled and the first-name error shows
\* on step one.
C6_Witness ==
    /\ pageUrl = "checkout-step-one"
    /\ checkoutError = "Error: First Name is required"
    /\ checkoutForm["firstName"] = <<>> /\ checkoutForm["lastName"] = <<>>
    /\ checkoutForm["postalCode"] = <<"J", "o">>

----------------------------------------------------------------------------
(* Cart claims *)

\* C7: after any sequence of add and remove operations through the three
\* page objects, the badge count and, on the cart page, the number of line
\* items equal the number of products added and not removed, and the badge
\* is hidden exactly when that number is 0.
C7_BadgeAndLinesMatchCart ==
    /\ InventoryGetCartItemCount = Num(Cardinality(expectedCart))
    /\ BadgeVisible <=> Cardinality(expectedCart) # 0
    /\ pageUrl = "cart" => CartGetCartItemCount = Cardinality(expectedCart)

\* C7 witness: the last line item was just removed on the cart page, leaving
\* no line item and no badge.
C7_Witness ==
    /\ lastShopOp = "CartPage.removeProductFromCart"
    /\ pageUrl = "cart"
    /\ CartGetCartItemCount = 0
    /\ ~BadgeVisible

----------------------------------------------------------------------------
(* Menu, page-load and session-file claims *)

\* C8: whatever the animation's duration, the menu is open in the state each
\* openMenu() returns in and closed in the state each closeMenu() returns in.
C8_MenuSettledAtReturn ==
    justReturned =>
        /\ lastMenuCall = "openMenu" => menuState = "open"
        /\ lastMenuCall = "closeMenu" => menuState = "closed"

MessageContains(message, part) == \E i \in DOMAIN message : message[i] = part

\* C9: when a page-load wait has raised, a screenshot was taken, the current
\* URL was logged and the error's message contains the current URL; when it
\* has returned, no screenshot was taken and nothing was raised.
C9_WaitFailureHasContext ==
    /\ waitPc = "raised" =>
          /\ screenshots # {}
          /\ \E i \in DOMAIN consoleLog : MessageContains(consoleLog[i], waitUrl)
          /\ MessageContains(waitError, waitUrl)
    /\ waitPc = "returned" => screenshots = {} /\ waitError = <<>>

\* C10: only global setup writes auth-standard.json, once, and the write is
\* over before any worker exists; no write overlaps a read or another write.
C10_SingleWriterBeforeReaders ==
    /\ fileWriters \subseteq {"globalSetup"}
    /\ authWrites <= 1
    /\ fileWriters # {} => fileReaders = {}
    /\ (\E w \in Workers : workerPc[w] # "unborn") =>
          authWrites = 1 /\ fileWriters = {}

\* C10 witness: two workers read the file at the same time, after the one write.
C10_Witness ==
    /\ Cardinality(fileReaders) >= 2
    /\ authWrites = 1
    /\ setupPc = "done"

----------------------------------------------------------------------------
(* POManager, driver and fixture claims *)

\* C11: a page object is constructed only once a getter returning it has
\* been accessed, and every constructed page object is bound to the page
\* handle the manager was given.
C11_LazyConstruction ==
    \A f \in poConstructed :
        /\ \E g \in poAccessed : GetterField(g) = f
        /\ poBoundPage[f] = managerPage

\* C12: within one method call at most one driver operation is outstanding.
C12_OneOperationOutstanding == Cardinality(drvOutstanding) <= 1

ActionKinds == {"fill", "click", "navigation", "wait"}

TimesIssued(op) == Cardinality({k \in DOMAIN drvLog : drvLog[k] = op})

\* C13: an operation that rejected was issued once, nothing of the script
\* is issued after it, and when it is a fill, click, navigation or wait the
\* call does not return normally: it raises.
C13_NoRetryFailurePropagates ==
    \A op \in drvFailed :
        /\ TimesIssued(op) = 1
        /\ drvLog[Len(drvLog)][1] = op[1]
        /\ DrvScript[op[1]][op[2]].kind \in ActionKinds =>
              drvOutcome \in {"handling", "raised"}

\* C13 witness: the click of LoginPage.login rejected and the call raised.
C13_Witness ==
    /\ drvMethod = "LoginPage.login"
    /\ <<3, 1>> \in drvFailed
    /\ drvOutcome = "raised"

\* C14: for a user type of the fixture, getUserCredentials returns the values
\* of the environment variables the fixture names when they are set, and
\* never an undefined username or password.
C14_CredentialsNeverUndefined ==
    credPc = "returned" =>
        /\ credResult.username # Undefined
        /\ credResult.password # Undefined
        /\ processEnv["STANDARD_USERNAME"] # Undefined =>
              credResult.username = processEnv["STANDARD_USERNAME"]
        /\ processEnv["STANDARD_PASSWORD"] # Undefined =>
              credResult.password = processEnv["STANDARD_PASSWORD"]

\* C15: the base URL a page object and global setup navigate to is the
\* baseUrl of the environment getCurrentEnvironment() reports.
C15_BaseUrlFollowsSelector ==
    /\ pageBaseURL # "none" =>
          pageBaseURL = EnvironmentsFixture[getCurrentEnvironment].baseUrl
    /\ setupGotoUrl # "none" =>
          setupGotoUrl = EnvironmentsFixture[getCurrentEnvironment].baseUrl

\* C16: global setup clicks the login button once; the file is written only
\* after the inventory page was reached; a run whose login never reaches
\* the inventory page fails and writes no file.
C16_SaveOnlyAfterLogin ==
    /\ loginAttempts <= 1
    /\ authWrites > 0 => setupOnInventory /\ loginAttempts = 1
    /\ setupPc = "done" => setupOnInventory
    /\ (setupPc = "failed" /\ ~setupOnInventory) => authWrites = 0

\* C16 witness: the login was submitted, the inventory page never came, the
\* setup failed without a file.
C16_Witness ==
    /\ setupPc = "failed"
    /\ loginAttempts = 1
    /\ ~setupOnInventory
    /\ authWrites = 0

\* C20: a test's page starts with an empty cart, a cart change in one
\* test's page leaves every other test's page as it was, and the state held
\* by the file never contains a cart item.
C20_TestsStartWithEmptyCart ==
    [][/\ \A w \in Workers :
             (workerPc[w] # "testing" /\ workerPc'[w] = "testing") => workerCart'[w] = {}
       /\ \A w \in Workers : \A p \in TestProducts :
             TestChangesCart(w, p) =>
                \A v \in Workers \ {w} : workerCart'[v] = workerCart[v]
       /\ authFileCart' = {}]_vars

\* C20 witness: a worker's earlier test left a product in its cart, another
\* worker holds a product too, and the worker's next test has just started.
C20_Witness ==
    \E w \in Workers :
        /\ workerPc[w] = "testing"
        /\ workerProject[w] = "authenticated-tests"
        /\ workerCart[w] = {}
        /\ \E v \in Workers \ {w} : workerCart[v] # {} /\ workerPc[v] = "testing"

----------------------------------------------------------------------------
(* Checkout flow claims *)

C18_OverviewCancelKeepsForm ==
    [][CheckoutOverviewCancel =>
          /\ pageUrl' = "checkout-step-one"
          /\ checkoutForm' = checkoutForm]_vars

\* C19: the checkout-complete page is entered only by finish on the
\* overview, the cart is empty whenever that page is shown, and it is still
\* empty after backToProducts().
C19_CompleteOnlyByFinish ==
    /\ [][(pageUrl # "checkout-complete" /\ pageUrl' = "checkout-complete") =>
             CheckoutOverviewFinish]_vars
    /\ [](pageUrl = "checkout-complete" => (cartContents = {} /\ ~BadgeVisible))
    /\ [][BackToProducts => (pageUrl' = "inventory" /\ cartContents' = {})]_vars

\* C19, amended: finish on the overview shows the checkout-complete page with
\* the cart empty and the badge hidden, whatever the cart held; after that
\* backToProducts() shows the inventory page with the cart still empty.
C19_FinishEmptiesCart ==
    [][/\ CheckoutOverviewFinish =>
             /\ pageUrl' = "checkout-complete"
             /\ cartContents' = {}
             /\ InventoryGetCartItemCount' = Num(0)
       /\ (BackToProducts /\ lastShopOp = "CheckoutOverviewPage.finish") =>
             /\ pageUrl' = "inventory"
             /\ cartContents' = {}]_vars

\* C19 witness: the inventory page after an order of a non-empty cart was
\* finished and backToProducts() returned, the cart empty.
C19_Witness ==
    /\ lastShopOp = "CheckoutCompletePage.backToProducts"
    /\ pageUrl = "inventory"
    /\ cartContents = {}
    /\ expectedCart # {}

----------------------------------------------------------------------------
(* Assertion claims *)

\* C21: assertLoginFailed passes only when an error message is shown and the
\* page is still the login page, and it fails whenever the inventory page is
\* shown.
C21_LoginFailedMeansStillOnLogin ==
    [][AssertLoginFailed =>
          /\ chkVerdict' = "passed" => (ErrorShown /\ pageUrl = "login")
          /\ pageUrl = "inventory" => chkVerdict' = "failed"]_vars

\* C27: in every page state and for every expected count the three
\* assertCartBadgeCount implementations end alike; for 0 they pass exactly
\* when the badge is hidden, for n > 0 exactly when the badge is visible and
\* its text parses to n; none has read the badge's text while it was absent.
C27_BadgeAssertionsAgree ==
    /\ \A n \in ExpectedCounts :
          LET i == InventoryAssertCartBadgeCount(n).verdict
              d == DetailsAssertCartBadgeCount(n).verdict
              h == HeaderAssertCartBadgeCount(n).verdict
          IN  /\ i = d
              /\ d = h
              /\ n = 0 => (i = "passed" <=> ~BadgeVisible)
              /\ n > 0 => (i = "passed" <=>
                              (BadgeVisible /\ ParseInt(BadgeText) = Num(n)))
    /\ ~chkReadAbsent

\* C27 witness: ProductDetailsPage's assertion has passed on a badge that
\* shows 2.
C27_Witness ==
    /\ chkCall = [method |-> "ProductDetailsPage.assertCartBadgeCount", n |-> 2]
    /\ chkVerdict = "passed"
    /\ Cardinality(cartContents) = 2

----------------------------------------------------------------------------
(* Sort assertion: where it raises, and what it leaves unchecked *)

\* The displayed pair at positions k, k + 1 is out of the requested order,
\* stated on the names' code units and on the amounts the prices denote.
Inverted(type, order, k) ==
    LET a == Catalog[inventoryItems[k]]
        b == Catalog[inventoryItems[k + 1]]
    IN  IF type = "name"
          THEN IF order = "asc" THEN ~NameBeforeOrEqual(a.name, b.name)
               ELSE ~NameBeforeOrEqual(b.name, a.name)
          ELSE IF order = "asc" THEN a.thousandths > b.thousandths
               ELSE a.thousandths < b.thousandths

Inversions(type, order) ==
    {k \in 1..(Len(inventoryItems) - 1) : Inverted(type, order, k)}

FirstInversion(type, order) ==
    CHOOSE k \in Inversions(type, order) : \A j \in Inversions(type, order) : k <= j

DisplayedText(type, k) ==
    IF type = "name" THEN Catalog[inventoryItems[k]].name
    ELSE Catalog[inventoryItems[k]].price

\* C22: for sort type name or price and order asc or desc, a sequence with
\* inversions never passes; the call raises only at the first inversion, the
\* error names that pair, and the loop never looks at a pair after it.
C22_RaisesAtFirstInversion ==
    (sortPc # "idle" /\ sortType \in {"name", "price"} /\ sortOrder \in {"asc", "desc"}) =>
        /\ sortPc = "raised" => Inversions(sortType, sortOrder) # {}
        /\ Inversions(sortType, sortOrder) # {} =>
              LET k == FirstInversion(sortType, sortOrder)
              IN  /\ sortPc # "passed"
                  /\ sortI <= k - 1
                  /\ sortPc = "raised" =>
                        /\ sortI = k - 1
                        /\ sortError = <<DisplayedText(sortType, k),
                                         DisplayedText(sortType, k + 1)>>

\* C22 witness: three prices with both pairs inverted, raised at the first.
C22_Witness ==
    /\ sortPc = "raised" /\ sortType = "price" /\ sortOrder = "asc"
    /\ Cardinality(Inversions("price", "asc")) = 2
    /\ sortI = 0

\* C30: a call with a sort type other than 'name' and 'price' never raises;
\* a call with an order other than 'asc' passes exactly when the displayed
\* sequence is descending.
C30_UnknownTypeUnchecked ==
    /\ sortType \notin {"name", "price"} => sortPc # "raised"
    /\ (SortDone /\ sortOrder # "asc") =>
          /\ sortType = "name" => (sortPc = "passed" <=> NamesInOrder("desc"))
          /\ sortType = "price" => (sortPc = "passed" <=> PricesInOrder("desc"))

\* C30 witness: a 'rating' check has passed over three products that are in
\* no order by name and in no order by price.
C30_Witness ==
    /\ sortPc = "passed" /\ sortType = "rating"
    /\ Len(inventoryItems) = 3
    /\ ~NamesInOrder("asc") /\ ~NamesInOrder("desc")
    /\ ~PricesInOrder("asc") /\ ~PricesInOrder("desc")

----------------------------------------------------------------------------
(* Navigation claims *)

\* One slash dropped from the end of the base and from the start of the path.
WithoutTrailingSlash(base) ==
    IF base # <<>> /\ base[Len(base)] = "/" THEN SubSeq(base, 1, Len(base) - 1) ELSE base
WithoutLeadingSlash(path) ==
    IF path # <<>> /\ path[1] = "/" THEN Tail(path) ELSE path

LogBefore(earlier, later) ==
    \A i \in DOMAIN navLog :
        navLog[i] = later => \E j \in 1..(i - 1) : navLog[j] = earlier

\* C23: goto hands page.goto the base and the path joined by exactly one
\* slash, whether or not the base ends and the path starts with one, the
\* empty path included; a path that starts with 'http' is handed over as it
\* is; the load-state wait starts only after page.goto has returned.
C23_GotoJoinsWithOneSlash ==
    navMethod # "none" =>
        /\ StartsWith(navPath, HttpPrefix) => navTarget = navPath
        /\ ~StartsWith(navPath, HttpPrefix) =>
              navTarget = WithoutTrailingSlash(navBase) \o <<"/">>
                             \o WithoutLeadingSlash(navPath)
        /\ LogBefore("page.goto returned", "waitForLoadState")

\* C23 witness: a base with a trailing slash and a path with a leading one,
\* the call returned.
C23_Witness ==
    /\ navMethod = "BasePage.goto" /\ navPc = "returned"
    /\ navBase = SiteOrigin \o <<"/">>
    /\ navPath = <<"/", "c">>
    /\ navTarget = SiteOrigin \o <<"/", "c">>

NavigationDone ==
    /\ navMethod = "InventoryPage.goto"
    /\ navPc \in {"returned", "raised"}
    /\ \E i \in DOMAIN navLog : navLog[i] = "page.goto returned"
    /\ navError # "driver"

----------------------------------------------------------------------------
(* removeAllProducts claim *)

\* count, then click, waitForTimeout, count once per line item removed.
RECURSIVE RemovalLog(_)
RemovalLog(n) ==
    IF n = 0 THEN <<"count">>
    ELSE RemovalLog(n - 1) \o <<"click", "waitForTimeout", "count">>

\* C25: a removeAllProducts call on a cart of n >= 0 line items returns; up to
\* then it has clicked the first remaining line item's button each time, one
\* click between two counts, and when it returns it has clicked exactly the
\* n line items in document order and the cart is empty.
C25_RemoveAllTerminates ==
    /\ [](/\ Len(rmClicked) <= Len(rmInitial)
          /\ rmClicked = SubSeq(rmInitial, 1, Len(rmClicked))
          /\ rmPc \in {"loop", "returned"} => rmLog = RemovalLog(Len(rmClicked))
          /\ rmPc = "returned" =>
                /\ rmLines = <<>>
                /\ rmClicked = rmInitial)
    /\ (rmPc = "loop" ~> rmPc = "returned")

\* C25 witness: the call has returned from a cart of three line items.
C25_Witness ==
    /\ rmPc = "returned"
    /\ Len(rmInitial) = 3
    /\ Len(rmClicked) = 3
    /\ rmLines = <<>>

----------------------------------------------------------------------------
(* Menu click claims *)

MenuButtonClicks ==
    Cardinality({i \in DOMAIN hdrLog : hdrLog[i] = "menuButton.click"})

\* C26: an openMenu() call on a closed menu has clicked the menu button once
\* when it returns, and one on an open menu not at all; a second openMenu()
\* right after one that started on a closed or an open menu returns with the
\* menu open or opening; a menu link is clicked only after isMenuOpen() has
\* answered true or openMenu() has returned within the same call.
C26_OpenMenuIdempotent ==
    /\ []((hdrCur.method = "openMenu" /\ hdrPc = "ready") =>
             /\ hdrCur.menuAtCall = "closed" => MenuButtonClicks = 1
             /\ hdrCur.menuAtCall = "open" => MenuButtonClicks = 0)
    /\ [](\A i \in DOMAIN hdrLog :
             hdrLog[i] = "link.click" =>
                \E j \in 1..(i - 1) :
                    hdrLog[j] \in {"isMenuOpen: true", "openMenu returned"})
    /\ [][(/\ hdrCur.method = "openMenu"
           /\ hdrPrev.method = "openMenu"
           /\ hdrPrev.menuAtCall \in {"closed", "open"}
           /\ hdrPc # "ready"
           /\ hdrPc' = "ready") => hdrMenu' \in {"opening", "open"}]_vars

\* C26 witness: two openMenu() calls in a row, the first on a closed menu;
\* the second has returned without a click and the menu is open.
C26_Witness ==
    /\ hdrCur.method = "openMenu" /\ hdrPrev = [method |-> "openMenu", menuAtCall |-> "closed"]
    /\ hdrPc = "ready"
    /\ MenuButtonClicks = 0
    /\ hdrMenu = "open"

----------------------------------------------------------------------------
(* Login failure claim *)

----------------------------------------------------------------------------
(* Global setup exit claim *)

\* C29: globalSetup leaves, by returning or by rejecting, with the browser it
\* launched closed: once chromium.launch has resolved, every exit is taken
\* from browser.close().
C29_BrowserClosedOnEveryExit ==
    [][(/\ setupPc \notin {"launch", "done", "failed"}
        /\ setupPc' \in {"done", "failed"}) => setupPc = "close"]_vars

=============================================================================
